---- MODULE Spec2Model ----
(***************************************************************************)
(* The reporting-API submitter of the Shopify -> Hanteo synchronisation:   *)
(* HanteoService (token lifecycle, sendSalesData, sendSalesDataInBatches)  *)
(* and retryWithBackoff.                                                   *)
(*                                                                         *)
(* Execution model: JavaScript's single thread.  One action is the code    *)
(* that runs between two awaits of one caller: it starts when the awaited  *)
(* promise settles (a server response arrives, a timer fires, an async     *)
(* function returns) and ends at the caller's next await.                  *)
(* Time (now, expiresAt, lastCacheUpdate) and timer lengths (wait) are in  *)
(* milliseconds, as Date.now() and setTimeout count them.                  *)
(***************************************************************************)
EXTENDS Integers, Sequences, FiniteSets, TLC

\* ---- program constants -------------------------------------------------
maxBatchSize == 100
retryAttempts == 3
retryDelay == 1000
defaultMaxDelay == 30000
defaultFactor == 2
defaultDelayBetweenBatches == 1000
\* the clock advances in steps of one minute
Minute == 60 * 1000
expiryBuffer == 5 * Minute
CACHE_TTL == 60 * Minute
SUCCESS == 100
PARTIAL_SUCCESS == 101
INVALID_DATA == 604
SERVER_ERROR == 703
INVALID_TOKEN == 821
TOKEN_EXPIRED == 822

\* ---- bounds of the model -------------------------------------------------
\* the clock stops after MaxNow minutes
MaxNow == 1
\* sendSalesDataInBatches takes 0..MaxTx transactions
MaxTx == 3
\* ... with batchSize in 1..MaxBatchOpt
MaxBatchOpt == 2
\* ... that make at most MaxChunks chunks
MaxChunks == 2
\* forced re-authentications followed within one sendSalesData call
MaxDepth == 1
\* the clock of the SyncService runs stops after MaxHalfHours half hours
MaxHalfHours == 3
\* milliseconds that pass around two calls of generateOpVal
MaxMillis == 2

Callers == {"sweep", "webhook"}

\* lifetimes (expires_in, seconds) the token endpoint hands out: one minute above
\* the safety margin
ExpiresInChoices == {(expiryBuffer + Minute) \div 1000}

Min(a, b) == IF a < b THEN a ELSE b

RECURSIVE Pow(_, _)
Pow(b, e) == IF e = 0 THEN 1 ELSE b * Pow(b, e - 1)

\* ---- data ----------------------------------------------------------------
\* SalesTransaction, reduced to the fields the submitter reads
Transaction(k) == [orderId |-> k, lineItemId |-> k]

MkTransactions(n) == [k \in 1..n |-> Transaction(k)]

NoToken == [present |-> FALSE, expiresAt |-> 0]

NoFailData == [present |-> FALSE, entries |-> <<>>]

NoResultData ==
  [present |-> FALSE, requestCount |-> 0, successCount |-> 0, failCount |-> 0,
   failData |-> NoFailData]

NoResponse == [present |-> FALSE, status |-> 0, code |-> 0]

NoBody == [code |-> 0, message |-> "", resultData |-> NoResultData]

\* details holds a response body, or an error, of which the name is kept (cause)
NoError == [name |-> "none", message |-> <<>>, code |-> 0, response |-> NoResponse,
            details |-> NoBody, cause |-> "none", failedData |-> NoFailData]

NoOutcome == [kind |-> "none", result |-> NoBody, error |-> NoError]

VARIABLES
  token,    \* HanteoService.token (shared by all callers)
  now,      \* Date.now()
  callers,  \* the callers that enter the service in this run
  proc,     \* per caller: the frames of its sendSalesData / sendSalesDataInBatches call
  albumProductsCache,  \* SyncService.albumProductsCache: the entries of the Map
  lastCacheUpdate,     \* SyncService.lastCacheUpdate
  sync,     \* per job: the frames of its SyncService call
  call,     \* a call of a validator or extractor: its argument and what it returned
  fetch,    \* a call of ShopifyService: its locals and what it returned
  hook      \* a webhook request: what arrived, what was answered, what was started

hanteoVars == <<token, callers, proc>>

syncVars == <<albumProductsCache, lastCacheUpdate, sync>>

utilVars == <<call, fetch, hook>>

vars == <<token, now, callers, proc, albumProductsCache, lastCacheUpdate, sync, call,
          fetch, hook>>

\* ---- per-caller frames ----------------------------------------------------
EmptyResults ==
  [totalSent |-> 0, totalSuccess |-> 0, totalFailed |-> 0,
   batchResults |-> <<>>, failedTransactions |-> <<>>]

\* the answer handled by the latest step: to a POST (listed: it carries failData)
\* or to a token request (listed: it carries resultData)
NoLast == [kind |-> "none", status |-> 0, code |-> 0, listed |-> FALSE]

\* what the network saw during the current outermost sendSalesData call
NoObserved ==
  [validAtEntry |-> FALSE, nAuth |-> 0, nPost |-> 0, nForced |-> 0,
   first |-> "none", laterErr |-> FALSE]

InitProc ==
  [pc |-> "idle", entry |-> "none",
   \* sendSalesData
   transactions |-> <<>>, salesData |-> <<>>, attempt |-> 0, wait |-> 0, depth |-> 0,
   ret |-> NoOutcome,
   \* sendSalesDataInBatches
   input |-> <<>>, batchSize |-> 0, delayBetweenBatches |-> 0, i |-> 0,
   batch |-> <<>>, results |-> EmptyResults,
   \* observation: the requests of the current sendSalesData call, the response
   \* handled by the latest step, the chunk events of the current batch call
   \* and the chunks it passed to sendSalesData, with their outcomes
   seen |-> NoObserved, last |-> NoLast, log |-> <<>>, chunks |-> <<>>,
   outcomes |-> <<>>]

\* ---- token -----------------------------------------------------------------
\* a validity test that still accepts a token exactly at the safety margin
isTokenValidAtMargin(tok) == tok.present /\ now + expiryBuffer <= tok.expiresAt

isTokenValid(tok) == tok.present /\ now + expiryBuffer < tok.expiresAt

\* ---- wire format -----------------------------------------------------------
generateOpVal(orderId, lineItemId) == <<orderId, lineItemId, now>>

convertToHanteoFormat(tx) == [opVal |-> generateOpVal(tx.orderId, tx.lineItemId)]

\* ---- errors ----------------------------------------------------------------
AppError(name, message, code, details, failedData) ==
  [name |-> name, message |-> message, code |-> code, response |-> NoResponse,
   details |-> details, cause |-> "none", failedData |-> failedData]

HanteoError(message, code, details, failedData) ==
  AppError("HanteoError", <<"Hanteo Error: ">> \o message, code, details, failedData)

StatusText(status) ==
  CASE status = 400 -> "400" [] status = 401 -> "401" [] status = 403 -> "403"
    [] status = 500 -> "500" [] OTHER -> "???"

\* what axios rejects with: a response outside 2xx, or no response at all
AxiosError(status, code) ==
  [name |-> "AxiosError",
   message |-> IF status = 0 THEN <<"Network Error">>
               ELSE <<"Request failed with status code ", StatusText(status)>>,
   code |-> 0,
   response |-> IF status = 0 THEN NoResponse
                ELSE [present |-> TRUE, status |-> status, code |-> code],
   details |-> NoBody, cause |-> "none", failedData |-> NoFailData]

\* `this.token!.accessToken` on a null token
TypeError ==
  [name |-> "TypeError", message |-> <<"Cannot read properties of null">>, code |-> 0,
   response |-> NoResponse, details |-> NoBody, cause |-> "none",
   failedData |-> NoFailData]

Result(body) == [kind |-> "result", result |-> body, error |-> NoError]

Thrown(err) == [kind |-> "error", result |-> NoBody, error |-> err]

\* the observation starts with the token as the outermost call finds it
Observe(tok) == [NoObserved EXCEPT !.validAtEntry = isTokenValid(tok)]

\* ---- sendSalesData, up to its first await (part_000:130-131) ---------------
\* w = [token, p]: the shared token and the caller's frames.
\* ensureAuthenticated: a handshake is started unless the token is valid.
EnterSendSalesData(w, transactions) ==
  LET p1 == [w.p EXCEPT !.transactions = transactions, !.salesData = <<>>,
                        !.attempt = 0, !.wait = 0]
  IN IF isTokenValid(w.token)
     THEN [w EXCEPT !.p = [p1 EXCEPT !.pc = "ensured"]]
     ELSE [w EXCEPT !.p = [p1 EXCEPT !.pc = "auth_ensure", !.seen.nAuth = @ + 1]]

\* slice with the end index taken as inclusive
SliceInclusive(s, from, to) == SubSeq(s, from + 1, Min(to + 1, Len(s)))

\* Array.prototype.slice(from, to) on a sequence (0-based, to exclusive, clipped)
Slice(s, from, to) == SubSeq(s, from + 1, Min(to, Len(s)))

\* ---- sendSalesDataInBatches (part_000:236-319) -----------------------------
\* the loop body with the await dropped: the next chunk is submitted without
\* waiting for the outcome of this one
LoopIterationNoAwait(w) ==
  IF w.p.i < Len(w.p.input)
  THEN LET batch == Slice(w.p.input, w.p.i, w.p.i + w.p.batchSize)
           p1 == [w.p EXCEPT !.batch = batch, !.depth = 0,
                             !.seen = Observe(w.token),
                             !.log = Append(@, "send"), !.chunks = Append(@, batch)]
           w1 == EnterSendSalesData([w EXCEPT !.p = p1], batch)
           next == Slice(w.p.input, w.p.i + w.p.batchSize, w.p.i + 2 * w.p.batchSize)
       IN IF w.p.i + w.p.batchSize < Len(w.p.input)
          THEN EnterSendSalesData(
                 [w1 EXCEPT !.p = [w1.p EXCEPT !.i = @ + w.p.batchSize, !.batch = next,
                                               !.log = Append(@, "send"),
                                               !.chunks = Append(@, next)]],
                 next)
          ELSE w1
  ELSE [w EXCEPT !.p = [w.p EXCEPT !.pc = "done", !.batch = <<>>, !.wait = 0]]

\* the for statement's test and the body up to `await this.sendSalesData(batch)`
LoopIteration(w) ==
  IF w.p.i < Len(w.p.input)
  THEN LET batch == Slice(w.p.input, w.p.i, w.p.i + w.p.batchSize)
           p1 == [w.p EXCEPT !.batch = batch, !.depth = 0,
                             !.seen = Observe(w.token),
                             !.log = Append(@, "send"), !.chunks = Append(@, batch)]
       IN EnterSendSalesData([w EXCEPT !.p = p1], batch)
  ELSE [w EXCEPT !.p = [w.p EXCEPT !.pc = "done", !.batch = <<>>, !.wait = 0]]

\* the first transaction of the chunk whose opVal, generated now, is the key
RECURSIVE Find(_, _)
Find(batch, opVal) ==
  IF batch = <<>> THEN <<>>
  ELSE IF generateOpVal(Head(batch).orderId, Head(batch).lineItemId) = opVal
       THEN <<Head(batch)>>
       ELSE Find(Tail(batch), opVal)

\* the failData loop (part_000:276-288), entries in the object's key order
RECURSIVE TrackFailed(_, _)
TrackFailed(batch, entries) ==
  IF entries = <<>> THEN <<>>
  ELSE LET failedTx == Find(batch, Head(entries)[1])
       IN (IF failedTx = <<>> THEN <<>>
           ELSE <<[transaction |-> failedTx[1], error |-> <<Head(entries)[2]>>]>>)
          \o TrackFailed(batch, Tail(entries))

\* a try branch that leaves the response's failCount out of totalFailed
ChunkReturnedSuccessOnly(w, response) ==
  LET rd == response.resultData
      r1 == [w.p.results EXCEPT !.batchResults = Append(@, response)]
      r2 == IF rd.present
            THEN [r1 EXCEPT !.totalSent = @ + rd.requestCount,
                            !.totalSuccess = @ + rd.successCount,
                            !.failedTransactions =
                               @ \o (IF rd.failData.present
                                     THEN TrackFailed(w.p.batch, rd.failData.entries)
                                     ELSE <<>>)]
            ELSE r1
      p1 == [w.p EXCEPT !.results = r2, !.log = Append(@, "returned")]
  IN IF w.p.i + w.p.batchSize < Len(w.p.input)
     THEN [w EXCEPT !.p = [p1 EXCEPT !.pc = "chunk_delay",
                                      !.wait = w.p.delayBetweenBatches]]
     ELSE LoopIteration([w EXCEPT !.p = [p1 EXCEPT !.i = @ + w.p.batchSize]])

\* try branch, part_000:267-294
ChunkReturned(w, response) ==
  LET rd == response.resultData
      r1 == [w.p.results EXCEPT !.batchResults = Append(@, response)]
      r2 == IF rd.present
            THEN [r1 EXCEPT !.totalSent = @ + rd.requestCount,
                            !.totalSuccess = @ + rd.successCount,
                            !.totalFailed = @ + rd.failCount,
                            !.failedTransactions =
                               @ \o (IF rd.failData.present
                                     THEN TrackFailed(w.p.batch, rd.failData.entries)
                                     ELSE <<>>)]
            ELSE r1
      p1 == [w.p EXCEPT !.results = r2, !.log = Append(@, "returned")]
  IN IF w.p.i + w.p.batchSize < Len(w.p.input)
     THEN [w EXCEPT !.p = [p1 EXCEPT !.pc = "chunk_delay",
                                      !.wait = w.p.delayBetweenBatches]]
     ELSE LoopIteration([w EXCEPT !.p = [p1 EXCEPT !.i = @ + w.p.batchSize]])

\* a catch branch that counts the chunk as failed but lists only its first transaction
ChunkThrewFirstOnly(w, error) ==
  LET failed == <<[transaction |-> w.p.batch[1], error |-> error.message]>>
      r1 == [w.p.results EXCEPT !.failedTransactions = @ \o failed,
                                !.totalFailed = @ + Len(w.p.batch)]
      p1 == [w.p EXCEPT !.results = r1, !.log = Append(@, "threw"),
                        !.i = @ + w.p.batchSize]
  IN LoopIteration([w EXCEPT !.p = p1])

\* catch branch, part_000:296-308, then the next iteration
ChunkThrew(w, error) ==
  LET failed == [k \in 1..Len(w.p.batch) |->
                   [transaction |-> w.p.batch[k], error |-> error.message]]
      r1 == [w.p.results EXCEPT !.failedTransactions = @ \o failed,
                                !.totalFailed = @ + Len(w.p.batch)]
      p1 == [w.p EXCEPT !.results = r1, !.log = Append(@, "threw"),
                        !.i = @ + w.p.batchSize]
  IN LoopIteration([w EXCEPT !.p = p1])

\* the promise of the outermost sendSalesData settles: the caller resumes
Settle(w, outcome) ==
  IF w.p.entry = "batch"
  THEN LET w1 == [w EXCEPT !.p.outcomes = Append(@, outcome)]
       IN IF outcome.kind = "result" THEN ChunkReturned(w1, outcome.result)
          ELSE ChunkThrew(w1, outcome.error)
  ELSE [w EXCEPT !.p = [w.p EXCEPT !.pc = "done", !.ret = outcome, !.wait = 0]]

\* ---- sendSalesData after a failed or answered attempt ----------------------
\* a catch branch that re-authenticates without dropping the rejected token
CaughtKeepsToken(w, error) ==
  IF error.response.present
     /\ (error.response.status = 401
         \/ error.response.code = INVALID_TOKEN
         \/ error.response.code = TOKEN_EXPIRED)
  THEN [w EXCEPT !.p = [w.p EXCEPT !.pc = "auth_forced", !.wait = 0,
                                   !.seen.nAuth = @ + 1, !.seen.nForced = @ + 1]]
  ELSE Settle(w, Thrown(error))

\* catch branch of sendSalesData (part_000:216-230)
Caught(w, error) ==
  IF error.response.present
     /\ (error.response.status = 401
         \/ error.response.code = INVALID_TOKEN
         \/ error.response.code = TOKEN_EXPIRED)
  THEN [w EXCEPT !.token = NoToken,
                 !.p = [w.p EXCEPT !.pc = "auth_forced", !.wait = 0,
                                   !.seen.nAuth = @ + 1, !.seen.nForced = @ + 1]]
  ELSE Settle(w, Thrown(error))

\* a delay that takes the number of the coming attempt as the exponent
BackoffDelayOfNextAttempt(initialDelay, factor, maxDelay, attempt) ==
  Min(initialDelay * Pow(factor, attempt + 1), maxDelay)

\* the delay retryWithBackoff waits after failed attempt number `attempt`
BackoffDelay(initialDelay, factor, maxDelay, attempt) ==
  Min(initialDelay * Pow(factor, attempt), maxDelay)

\* catch branch of retryWithBackoff (part_001:156-179)
AttemptFailed(w, error) ==
  IF w.p.attempt = retryAttempts
  THEN Caught(w, error)
  ELSE [w EXCEPT !.p = [w.p EXCEPT
          !.pc = "backoff",
          !.wait = BackoffDelay(retryDelay, defaultFactor, defaultMaxDelay, w.p.attempt)]]

\* fn() of retryWithBackoff: the POST of part_000:161-169
Attempt(w) ==
  IF w.token.present
  THEN [w EXCEPT !.p = [w.p EXCEPT !.pc = "post", !.wait = 0, !.seen.nPost = @ + 1]]
  ELSE AttemptFailed(w, TypeError)

\* an inspection of the response body that returns a partial success as it is
PostResolvedReturnsPartial(w, result) ==
  IF result.code # SUCCESS /\ result.code # PARTIAL_SUCCESS
  THEN Caught(w, HanteoError(
                   <<IF result.message = "" THEN "Sales data submission failed"
                     ELSE result.message>>,
                   result.code, result, NoFailData))
  ELSE Settle(w, Result(result))

\* the response body is inspected (part_000:179-214)
PostResolved(w, result) ==
  IF result.code = PARTIAL_SUCCESS /\ result.resultData.present
     /\ result.resultData.failData.present
  THEN Caught(w, HanteoError(<<"Partial success - some records failed">>,
                             result.code, result, result.resultData.failData))
  ELSE IF result.code # SUCCESS /\ result.code # PARTIAL_SUCCESS
       THEN Caught(w, HanteoError(
                        <<IF result.message = "" THEN "Sales data submission failed"
                          ELSE result.message>>,
                        result.code, result, NoFailData))
       ELSE Settle(w, Result(result))

ZeroBody ==
  [code |-> SUCCESS, message |-> "No data to send",
   resultData |-> [present |-> TRUE, requestCount |-> 0, successCount |-> 0,
                   failCount |-> 0, failData |-> NoFailData]]

\* sendSalesData from the return of ensureAuthenticated to the first POST
\* (part_000:133-177)
AfterEnsure(w) ==
  IF Len(w.p.transactions) = 0
  THEN Settle(w, Result(ZeroBody))
  ELSE LET salesData == [k \in 1..Len(w.p.transactions) |->
                           convertToHanteoFormat(w.p.transactions[k])]
       IN IF Len(salesData) > maxBatchSize
          THEN Settle(w, Thrown(HanteoError(<<"Batch size exceeds maximum">>,
                                            INVALID_DATA, NoBody, NoFailData)))
          ELSE Attempt([w EXCEPT !.p = [w.p EXCEPT !.salesData = salesData,
                                                   !.attempt = 0]])

AuthenticationError(message) == AppError("AuthenticationError", message, 0, NoBody, NoFailData)

\* what the try block of authenticate throws on the answer r (part_000:73-87)
AuthenticateThrows(r) ==
  IF r.kind = "resolved"
  THEN AuthenticationError(<<"Authentication failed: ", "Unknown error">>)
  ELSE AxiosError(0, 0)

\* the catch block of authenticate (part_000:101-104)
AuthFailed == HanteoError(<<"Authentication failed">>, 0, NoBody, NoFailData)

\* authenticate (part_000:69-105) on the token endpoint's answer r:
\* the token it leaves stored, whether it threw, and what
Authenticate(tok, r) ==
  IF r.kind = "resolved" /\ r.code = SUCCESS /\ r.hasResultData
  THEN [token |-> [present |-> TRUE, expiresAt |-> now + r.expires_in * 1000],
        threw |-> FALSE, error |-> NoError]
  ELSE [token |-> tok, threw |-> TRUE,
        error |-> [AuthFailed EXCEPT !.cause = AuthenticateThrows(r).name]]

\* ---- the reporting API (environment) ---------------------------------------
\* answers of the token endpoint
AuthResponses ==
  {[kind |-> "resolved", code |-> SUCCESS, hasResultData |-> TRUE, expires_in |-> e] :
     e \in ExpiresInChoices}
  \cup {[kind |-> "resolved", code |-> INVALID_TOKEN, hasResultData |-> FALSE, expires_in |-> 0],
        [kind |-> "resolved", code |-> SUCCESS, hasResultData |-> FALSE, expires_in |-> 0],
        [kind |-> "rejected", code |-> 0, hasResultData |-> FALSE, expires_in |-> 0]}

AllAccepted(salesData) ==
  [present |-> TRUE, requestCount |-> Len(salesData), successCount |-> Len(salesData),
   failCount |-> 0, failData |-> NoFailData]

\* the first record rejected, keyed by the opVal that was sent
FirstRejected(salesData) ==
  [present |-> TRUE, requestCount |-> Len(salesData),
   successCount |-> Len(salesData) - 1, failCount |-> 1,
   failData |-> [present |-> TRUE, entries |-> <<<<salesData[1].opVal, "404_UC">>>>]]

\* the first record rejected, counted but not listed
FirstRejectedUnlisted(salesData) ==
  [present |-> TRUE, requestCount |-> Len(salesData),
   successCount |-> Len(salesData) - 1, failCount |-> 1, failData |-> NoFailData]

Response(status, code, message, resultData) ==
  [status |-> status, code |-> code, message |-> message, resultData |-> resultData]

\* answers to a submission POST; status 0 is a transport failure (no response)
PostResponses(salesData) ==
  {Response(200, SUCCESS, "Success", rd) :
     rd \in {AllAccepted(salesData), FirstRejected(salesData), NoResultData}}
  \cup {Response(200, PARTIAL_SUCCESS, "Partial success", rd) :
     rd \in {FirstRejected(salesData), FirstRejectedUnlisted(salesData)}}
  \cup {Response(200, INVALID_TOKEN, "Invalid token", NoResultData),
        Response(200, INVALID_DATA, "", NoResultData),
        Response(401, 0, "", NoResultData),
        Response(403, TOKEN_EXPIRED, "Token expired", NoResultData),
        Response(400, INVALID_DATA, "", NoResultData),
        Response(500, SERVER_ERROR, "", NoResultData),
        Response(0, 0, "", NoResultData)}

Body(resp) == [code |-> resp.code, message |-> resp.message, resultData |-> resp.resultData]

\* ---- SyncService: data (sync.service.ts) ---------------------------------------
\* the jobs that enter SyncService: the order sweep and the product sync of
\* setupCronJobs, and the fulfillment webhook
Jobs == {"sweep", "webhook", "refresh"}

\* AlbumProduct, reduced to its key, the product it belongs to and its barcode
AlbumProduct(variantId, productId) ==
  [variantId |-> variantId, productId |-> productId, barcode |-> <<"880", variantId>>]

\* Map.prototype.set on the entries of the cache
MapSet(entries, product) ==
  {e \in entries : e.variantId # product.variantId} \cup {product}

\* Map.prototype.has
MapHas(entries, variantId) == \E e \in entries : e.variantId = variantId

\* Map.prototype.get of a key the map has
MapGet(entries, variantId) == CHOOSE e \in entries : e.variantId = variantId

\* the for loop of syncAlbumProducts over the fetched products (sync.service.ts:32-34)
RECURSIVE SetAll(_, _)
SetAll(entries, products) ==
  IF products = <<>> THEN entries
  ELSE SetAll(MapSet(entries, Head(products)), Tail(products))

\* ShopifyLineItem (order.model.ts:30-45), reduced to the fields processOrder reads
LineItem(id, variant_id, quantity) ==
  [id |-> id, variant_id |-> variant_id, quantity |-> quantity]

\* ShopifyFulfillment (order.model.ts:65-78); an absent tracking_number is "",
\* an absent tracking_numbers is <<>>
ShopifyFulfillment(id, tracking_number, tracking_numbers, line_items) ==
  [id |-> id, tracking_number |-> tracking_number,
   tracking_numbers |-> tracking_numbers, line_items |-> line_items]

\* a fulfillment with one line item
Fulfillment(tracked, variant_id) ==
  ShopifyFulfillment(variant_id, IF tracked THEN "KR1" ELSE "", <<>>,
                     <<LineItem(variant_id, variant_id, 1)>>)

\* ShopifyOrder (order.model.ts:1-16) with the line items listed on the order itself
ShopifyOrder(id, line_items, fulfillments) ==
  [id |-> id, name |-> <<"#", id>>, line_items |-> line_items,
   fulfillments |-> fulfillments]

\* an order as getFulfilledOrders / getOrderById delivers it
Order(id, fulfillments) == ShopifyOrder(id, <<>>, fulfillments)

ShopifyError(message) == [name |-> "ShopifyError", message |-> <<"Shopify Error: ", message>>]

NoSyncError == [name |-> "none", message |-> <<>>]

NoSeen == [age |-> 0, size |-> 0, nFetch |-> 0, looked |-> 0]

InitSync ==
  [pc |-> "idle", entry |-> "none", orders |-> <<>>, k |-> 0,
   allTransactions |-> <<>>, ordersProcessed |-> 0, errors |-> <<>>,
   ret |-> "none", error |-> NoSyncError,
   \* observation: the cache as the call found it, the fetches it started, the
   \* cache lookups it made
   seen |-> NoSeen]

\* ---- validators: data (validators.ts, sync.service.ts) -----------------------------
\* a string is the sequence of its characters; an absent string is <<>> with
\* present = FALSE
NoText == [present |-> FALSE, text |-> <<>>]

Text(chars) == [present |-> TRUE, text |-> chars]

\* ShopifyCustomer (order.model.ts:18-28), reduced to tags and note
Customer(tags, note) == [tags |-> tags, note |-> note]

\* no call: nothing passed, nothing returned
NoCall ==
  [fn |-> "none", pc |-> "idle", barcode |-> NoText, customer |-> Customer(NoText, NoText),
   valid |-> FALSE, gender |-> NoText, birthYear |-> NoText, opVals |-> <<>>]

\* ---- ShopifyService: data (shopify.service.ts) -----------------------------------
\* the header x-shopify-shop-api-call-limit, "used/limit"; absent is NoHeader
NoHeader == [present |-> FALSE, used |-> 0, limit |-> 0]

ApiCallLimit(used, limit) == [present |-> TRUE, used |-> used, limit |-> limit]

\* what a call has returned: nothing yet, or nothing at all when it threw
NoRows == [present |-> FALSE, rows |-> <<>>]

\* the frame of a ShopifyService call, idle
NoFetch ==
  [fn |-> "none", pc |-> "idle", limit |-> 0, page |-> 1, hasMore |-> TRUE,
   orders |-> <<>>, albums |-> <<>>, hasNextPage |-> TRUE, endCursor |-> 0,
   attempt |-> 0, wait |-> 0, requests |-> <<>>, fetched |-> 0,
   headers |-> NoHeader, error |-> NoSyncError, result |-> NoRows]

\* ---- webhook: data (order-fulfillment.webhook.ts) --------------------------------
\* a request as the handler sees it: whether config.shopify.webhookSecret is set,
\* req.rawBody ("" when nothing has set it), the header x-shopify-hmac-sha256
\* (<<>> when the request has none), the header x-shopify-topic,
\* req.body.fulfillment_status
Request(secret, rawBody, hmac, topic, fulfillment_status) ==
  [secret |-> secret, rawBody |-> rawBody, hmac |-> hmac, topic |-> topic,
   fulfillment_status |-> fulfillment_status]

\* no request: nothing answered (status 0), nothing scheduled, nothing started
NoHook ==
  [pc |-> "idle", req |-> Request(FALSE, "", <<>>, "", ""), status |-> 0,
   outcome |-> "none", immediate |-> FALSE, processing |-> "none"]

\* ---- inputs ------------------------------------------------------------------
\* sendSalesData is called with no transaction, one, or one above the ceiling
SingleInputs == {MkTransactions(n) : n \in {0, 1, maxBatchSize + 1}}

\* Math.ceil(n / batchSize)
CeilDiv(n, batchSize) == (n + batchSize - 1) \div batchSize

\* (a batchSize above the input's length behaves as one equal to it)
BatchInputs ==
  {in \in [n : 0..MaxTx, batchSize : 1..MaxBatchOpt] :
     /\ CeilDiv(in.n, in.batchSize) <= MaxChunks
     /\ in.batchSize <= in.n + 1}

\* ---- actions -----------------------------------------------------------------
World(c) == [token |-> token, p |-> [proc[c] EXCEPT !.last = NoLast]]

Commit(c, w) ==
  /\ token' = w.token
  /\ proc' = [proc EXCEPT ![c] = w.p]
  /\ UNCHANGED <<now, callers>>
  /\ UNCHANGED syncVars
  /\ UNCHANGED utilVars

Init ==
  /\ token = NoToken
  /\ now = 0
  /\ callers = {"sweep"}
  /\ proc = [c \in Callers |-> InitProc]
  /\ albumProductsCache = {}
  /\ lastCacheUpdate = 0
  /\ sync = [j \in Jobs |-> InitSync]
  /\ call = NoCall
  /\ fetch = NoFetch
  /\ hook = NoHook

\* a caller invokes sendSalesData(transactions)
CallSendSalesData(c, transactions) ==
  /\ c \in callers
  /\ proc[c].pc = "idle"
  /\ LET w == World(c)
         p1 == [InitProc EXCEPT !.entry = "single", !.seen = Observe(token)]
     IN Commit(c, EnterSendSalesData([w EXCEPT !.p = p1], transactions))

\* a caller invokes sendSalesDataInBatches(transactions, {batchSize, delayBetweenBatches})
CallSendSalesDataInBatches(c, transactions, batchSize, delayBetweenBatches) ==
  /\ c \in callers
  /\ proc[c].pc = "idle"
  /\ LET w == World(c)
         p1 == [InitProc EXCEPT !.entry = "batch", !.input = transactions,
                                !.batchSize = batchSize,
                                !.delayBetweenBatches = delayBetweenBatches]
     IN Commit(c, LoopIteration([w EXCEPT !.p = p1]))

\* the token endpoint's answer r as the step that handles it records it
Answered(kind, r) ==
  [kind |-> kind, status |-> IF r.kind = "resolved" THEN 200 ELSE 0, code |-> r.code,
   listed |-> r.hasResultData]

\* ensureAuthenticated returned without a handshake: sendSalesData resumes
Ensured(c) ==
  /\ proc[c].pc = "ensured"
  /\ Commit(c, AfterEnsure(World(c)))

\* the token endpoint answers the handshake of ensureAuthenticated
EnsureAuthReturns(c, r) ==
  /\ proc[c].pc = "auth_ensure"
  /\ LET a == Authenticate(token, r)
         w == [World(c) EXCEPT !.token = a.token, !.p.last = Answered("auth_ensure", r)]
     IN Commit(c, IF a.threw
                  THEN Settle([w EXCEPT !.p.seen.laterErr = TRUE], Thrown(a.error))
                  ELSE AfterEnsure(w))

\* the token endpoint answers the handshake of the catch branch; on success
\* sendSalesData calls itself (part_000:223-226)
ForcedAuthReturns(c, r) ==
  /\ proc[c].pc = "auth_forced"
  /\ LET a == Authenticate(token, r)
         w == [World(c) EXCEPT !.token = a.token, !.p.last = Answered("auth_forced", r)]
     IN IF a.threw
        THEN Commit(c, Settle([w EXCEPT !.p.seen.laterErr = TRUE], Thrown(a.error)))
        ELSE /\ proc[c].depth < MaxDepth
             /\ Commit(c, EnterSendSalesData([w EXCEPT !.p.depth = @ + 1],
                                             w.p.transactions))

\* the reporting API answers the submission POST with resp (or the transport fails)
PostAnswered(c, resp) ==
  /\ proc[c].pc = "post"
  /\   LET w0 == World(c)
           ok == resp.status = 200 /\ resp.code = SUCCESS
           p1 == [w0.p EXCEPT
                    !.last = [kind |-> "post", status |-> resp.status, code |-> resp.code,
                              listed |-> resp.resultData.failData.present],
                    !.seen.laterErr = @ \/ (w0.p.seen.first # "none" /\ ~ok),
                    !.seen.first = IF @ # "none" THEN @
                                   ELSE IF resp.status = 401 THEN "unauthorized"
                                   ELSE "other"]
           w == [w0 EXCEPT !.p = p1]
       IN Commit(c, IF resp.status = 200
                    THEN PostResolved(w, Body(resp))
                    ELSE AttemptFailed(w, AxiosError(resp.status, resp.code)))

\* ... with any of its answers
PostReturns(c) ==
  /\ proc[c].pc = "post"
  /\ \E resp \in PostResponses(proc[c].salesData) : PostAnswered(c, resp)

\* the backoff timer of retryWithBackoff fires: next attempt
BackoffElapses(c) ==
  /\ proc[c].pc = "backoff"
  /\ LET w == World(c)
     IN Commit(c, Attempt([w EXCEPT !.p.attempt = @ + 1, !.p.wait = 0]))

\* the inter-chunk timer fires: next iteration of the for loop
ChunkDelayElapses(c) ==
  /\ proc[c].pc = "chunk_delay"
  /\ LET w == World(c)
     IN Commit(c, LoopIteration([w EXCEPT !.p.i = @ + w.p.batchSize, !.p.wait = 0,
                                          !.p.log = Append(@, "delay")]))

\* the caller has read the outcome and drops it
Forget(c) ==
  /\ proc[c].pc = "done"
  /\ proc' = [proc EXCEPT ![c] = InitProc]
  /\ UNCHANGED <<token, now, callers>>
  /\ UNCHANGED syncVars
  /\ UNCHANGED utilVars

\* a minute passes
Tick ==
  /\ now < MaxNow * Minute
  /\ now' = now + Minute
  /\ UNCHANGED <<token, callers, proc>>
  /\ UNCHANGED syncVars
  /\ UNCHANGED utilVars

Next ==
  \/ \E c \in Callers, transactions \in SingleInputs : CallSendSalesData(c, transactions)
  \/ \E c \in Callers, in \in BatchInputs :
       CallSendSalesDataInBatches(c, MkTransactions(in.n), in.batchSize,
                                  defaultDelayBetweenBatches)
  \/ \E c \in Callers : Ensured(c)
  \/ \E c \in Callers, r \in AuthResponses : EnsureAuthReturns(c, r)
  \/ \E c \in Callers, r \in AuthResponses : ForcedAuthReturns(c, r)
  \/ \E c \in Callers : PostReturns(c)
  \/ \E c \in Callers : BackoffElapses(c)
  \/ \E c \in Callers : ChunkDelayElapses(c)
  \/ \E c \in Callers : Forget(c)
  \/ Tick

Spec == Init /\ [][Next]_vars

\* ---- two callers inside HanteoService at once ----------------------------------
\* the sweep and a webhook event both submit one transaction through the
\* singleton hanteoService (part_000:372)
ConcurrentInit ==
  /\ token = NoToken
  /\ now = 0
  /\ callers = Callers
  /\ proc = [c \in Callers |-> InitProc]
  /\ albumProductsCache = {}
  /\ lastCacheUpdate = 0
  /\ sync = [j \in Jobs |-> InitSync]
  /\ call = NoCall
  /\ fetch = NoFetch
  /\ hook = NoHook

\* the answers considered when two callers run: accepted, or the token rejected
ConcurrentPostResponses ==
  {Response(200, SUCCESS, "Success", AllAccepted(<<convertToHanteoFormat(Transaction(1))>>)),
   Response(401, 0, "", NoResultData)}

\* no caller is between the return of ensureAuthenticated and the resumption of
\* sendSalesData (part_000:131): that resumption is a microtask, and the
\* microtasks are drained before the next response or timer is handled
MicrotasksDrained == \A c \in Callers : proc[c].pc # "ensured"

ConcurrentNext ==
  \/ \E c \in Callers : MicrotasksDrained /\ CallSendSalesData(c, MkTransactions(1))
  \/ \E c \in Callers : Ensured(c)
  \/ \E c \in Callers, r \in AuthResponses : MicrotasksDrained /\ EnsureAuthReturns(c, r)
  \/ \E c \in Callers, r \in AuthResponses : MicrotasksDrained /\ ForcedAuthReturns(c, r)
  \/ \E c \in Callers, resp \in ConcurrentPostResponses :
       MicrotasksDrained /\ PostAnswered(c, resp)
  \/ \E c \in Callers : MicrotasksDrained /\ BackoffElapses(c)
  \/ \E c \in Callers : MicrotasksDrained /\ Forget(c)
  \/ MicrotasksDrained /\ Tick

ConcurrentSpec == ConcurrentInit /\ [][ConcurrentNext]_vars

\* ==== SyncService (sync.service.ts) ==============================================
\* ws = [cache, lastCacheUpdate, f]: the shared cache and the job's frames.
\* HanteoService is this part's environment: the submission settles with an
\* outcome drawn by the action that resumes the job.

\* the job's call ends; its loop variables are gone
SyncReturn(ws) ==
  [ws EXCEPT !.f.pc = "done", !.f.ret = "returned", !.f.k = 0, !.f.allTransactions = <<>>]

SyncThrow(ws, error) ==
  [ws EXCEPT !.f.pc = "done", !.f.ret = "threw", !.f.error = error,
             !.f.k = 0, !.f.allTransactions = <<>>]

\* a test that reads tracking_number only
HasTrackingNumberOnly(fulfillment) == fulfillment.tracking_number # ""

\* the test of sync.service.ts:159, negated
HasTracking(fulfillment) ==
  fulfillment.tracking_number # "" \/ Len(fulfillment.tracking_numbers) > 0

\* the SalesTransaction built at sync.service.ts:192-207
SalesTransaction(order, fulfillment, lineItem, albumProduct) ==
  [orderId |-> order.id, orderName |-> order.name,
   fulfillmentId |-> fulfillment.id, lineItemId |-> lineItem.id,
   productId |-> albumProduct.productId, variantId |-> albumProduct.variantId,
   barcode |-> albumProduct.barcode, quantity |-> lineItem.quantity,
   trackingNumber |-> IF fulfillment.tracking_number # ""
                      THEN fulfillment.tracking_number
                      ELSE fulfillment.tracking_numbers[1],
   status |-> "pending"]

\* the loop over the line items of one fulfillment (sync.service.ts:168-210)
RECURSIVE MapLineItems(_, _, _, _)
MapLineItems(entries, order, fulfillment, line_items) ==
  IF line_items = <<>> THEN <<>>
  ELSE LET lineItem == Head(line_items)
       IN (IF MapHas(entries, lineItem.variant_id)
           THEN <<SalesTransaction(order, fulfillment, lineItem,
                                   MapGet(entries, lineItem.variant_id))>>
           ELSE <<>>)
          \o MapLineItems(entries, order, fulfillment, Tail(line_items))

\* processOrder once the fulfillments are known (sync.service.ts:157-219)
RECURSIVE MapFulfillments(_, _, _)
MapFulfillments(entries, order, fulfillments) ==
  IF fulfillments = <<>> THEN <<>>
  ELSE LET fulfillment == Head(fulfillments)
       IN (IF HasTracking(fulfillment)
           THEN MapLineItems(entries, order, fulfillment, fulfillment.line_items)
           ELSE <<>>)
          \o MapFulfillments(entries, order, Tail(fulfillments))

\* the number of albumProductsCache.get calls of that mapping
RECURSIVE Lookups(_)
Lookups(fulfillments) ==
  IF fulfillments = <<>> THEN 0
  ELSE (IF HasTracking(Head(fulfillments)) THEN Len(Head(fulfillments).line_items) ELSE 0)
       + Lookups(Tail(fulfillments))

\* processOrder returned (sync.service.ts:107-109, 236); fetched fulfillments
\* were assigned to the order (sync.service.ts:153)
OrderMapped(ws, order, fulfillments) ==
  [ws EXCEPT !.f.allTransactions = @ \o MapFulfillments(ws.cache, order, fulfillments),
             !.f.orders[ws.f.k + 1].fulfillments = fulfillments,
             !.f.ordersProcessed = IF ws.f.entry = "sweep" THEN @ + 1 ELSE @,
             !.f.k = @ + 1,
             !.f.seen.looked = @ + Lookups(fulfillments)]

\* after the orders are mapped: submit if there is anything to submit
\* (sync.service.ts:119-137, 238-253)
AfterOrders(ws) ==
  IF Len(ws.f.allTransactions) > 0 THEN [ws EXCEPT !.f.pc = "submit"]
  ELSE SyncReturn(ws)

\* the loop over the fetched orders (sync.service.ts:105-117); the webhook
\* handler maps its single order the same way (sync.service.ts:236)
RECURSIVE ProcessOrders(_)
ProcessOrders(ws) ==
  IF ws.f.k < Len(ws.f.orders)
  THEN LET order == ws.f.orders[ws.f.k + 1]
       IN IF order.fulfillments = <<>>
          THEN [ws EXCEPT !.f.pc = "fulfillments"]
          ELSE ProcessOrders(OrderMapped(ws, order, order.fulfillments))
  ELSE AfterOrders(ws)

\* a sweep that gives up at the first order that fails
OrderFailedAborts(ws, error) == SyncThrow(ws, error)

\* processOrder threw: the sweep records the order and goes on
\* (sync.service.ts:110-116), the webhook handler rethrows (sync.service.ts:255-258)
OrderFailed(ws, error) ==
  IF ws.f.entry = "sweep"
  THEN ProcessOrders([ws EXCEPT
         !.f.errors = Append(@, [orderId |-> ws.f.orders[ws.f.k + 1].name,
                                 error |-> error.message]),
         !.f.k = @ + 1])
  ELSE SyncThrow(ws, error)

\* what follows `await this.ensureProductsCached()` (sync.service.ts:80-98, 233)
\* or the return of a direct syncAlbumProducts call
AfterEnsureProductsCached(ws) ==
  IF ws.f.entry = "refresh" THEN SyncReturn(ws)
  ELSE [ws EXCEPT !.f.pc = "orders"]

\* syncAlbumProducts that clears the cache before the fetch is awaited
SyncAlbumProductsClearFirst(ws) ==
  [ws EXCEPT !.cache = {}, !.f.pc = "fetch", !.f.seen.nFetch = @ + 1]

\* syncAlbumProducts up to `await shopifyService.getAlbumProducts` (sync.service.ts:19-27)
syncAlbumProducts(ws) ==
  [ws EXCEPT !.f.pc = "fetch", !.f.seen.nFetch = @ + 1]

\* ensureProductsCached that also refreshes a cache exactly CACHE_TTL old
ensureProductsCachedAtTTL(ws) ==
  IF now - ws.lastCacheUpdate >= CACHE_TTL \/ Cardinality(ws.cache) = 0
  THEN syncAlbumProducts(ws)
  ELSE AfterEnsureProductsCached(ws)

\* ensureProductsCached that looks at the age of the cache only
ensureProductsCachedByAge(ws) ==
  IF now - ws.lastCacheUpdate > CACHE_TTL
  THEN syncAlbumProducts(ws)
  ELSE AfterEnsureProductsCached(ws)

\* ensureProductsCached (sync.service.ts:52-58)
ensureProductsCached(ws) ==
  IF now - ws.lastCacheUpdate > CACHE_TTL \/ Cardinality(ws.cache) = 0
  THEN syncAlbumProducts(ws)
  ELSE AfterEnsureProductsCached(ws)

\* a failed fetch that is swallowed: the job goes on with the cache as it is
AlbumProductsRejectedGoesOn(ws, error) == AfterEnsureProductsCached(ws)

\* a failed fetch that leaves the cache cleared
AlbumProductsRejectedClears(ws, error) ==
  SyncThrow([ws EXCEPT !.cache = {}], error)

\* the catalog fetch failed (sync.service.ts:43-46); the error leaves
\* ensureProductsCached and the job's handler
AlbumProductsRejected(ws, error) == SyncThrow(ws, error)

\* the catalog fetch delivered (sync.service.ts:29-41)
AlbumProductsResolved(ws, products) ==
  AfterEnsureProductsCached(
    [ws EXCEPT !.cache = SetAll({}, products), !.lastCacheUpdate = now])

\* ---- Shopify (environment) ----------------------------------------------------
\* results of getAlbumProducts
Catalogs ==
  {<<>>, <<AlbumProduct(1, 1)>>, <<AlbumProduct(1, 1), AlbumProduct(2, 1)>>}

\* results of getFulfilledOrders
OrderLists ==
  {<<>>,
   <<Order(1, <<Fulfillment(TRUE, 1)>>)>>,
   <<Order(2, <<>>), Order(1, <<>>)>>}

\* results of getOrderFulfillments for an order (ShippedLists has the other kinds)
FulfillmentLists(id) == {<<Fulfillment(TRUE, id)>>}

\* ---- SyncService: actions -----------------------------------------------------
SyncWorld(j) ==
  [cache |-> albumProductsCache, lastCacheUpdate |-> lastCacheUpdate,
   f |-> sync[j]]

SyncCommit(j, ws) ==
  /\ albumProductsCache' = ws.cache
  /\ lastCacheUpdate' = ws.lastCacheUpdate
  /\ sync' = [sync EXCEPT ![j] = ws.f]
  /\ UNCHANGED now
  /\ UNCHANGED hanteoVars
  /\ UNCHANGED utilVars

\* the frames of a call that starts now; a call that goes through
\* ensureProductsCached is observed with the cache as it finds it
Entered(entry) ==
  IF entry = "refresh" THEN [InitSync EXCEPT !.entry = entry]
  ELSE [InitSync EXCEPT !.entry = entry,
                        !.seen.age = now - lastCacheUpdate,
                        !.seen.size = Cardinality(albumProductsCache)]

\* cron: processRecentFulfilledOrders (index.ts:197-207)
CallProcessRecentFulfilledOrders(j) ==
  /\ j = "sweep" /\ sync[j].pc = "idle"
  /\ SyncCommit(j, ensureProductsCached([SyncWorld(j) EXCEPT !.f = Entered("sweep")]))

\* the fulfillment webhook: processWebhookFulfillment
CallProcessWebhookFulfillment(j) ==
  /\ j = "webhook" /\ sync[j].pc = "idle"
  /\ SyncCommit(j, ensureProductsCached([SyncWorld(j) EXCEPT !.f = Entered("webhook")]))

\* cron: syncAlbumProducts (index.ts:183-194)
CallSyncAlbumProducts(j) ==
  /\ j = "refresh" /\ sync[j].pc = "idle"
  /\ SyncCommit(j, syncAlbumProducts([SyncWorld(j) EXCEPT !.f = Entered("refresh")]))

\* getAlbumProducts settles
AlbumProductsReturn(j) ==
  /\ sync[j].pc = "fetch"
  /\ \/ \E products \in Catalogs :
          SyncCommit(j, AlbumProductsResolved(SyncWorld(j), products))
     \/ SyncCommit(j, AlbumProductsRejected(SyncWorld(j),
                                            ShopifyError("Failed to fetch products")))

\* getFulfilledOrders (sweep) or getOrderById (webhook) delivers
OrdersResolved(j, orders) ==
  /\ sync[j].pc = "orders"
  /\ sync[j].entry = "webhook" => Len(orders) = 1
  /\ SyncCommit(j, ProcessOrders([SyncWorld(j) EXCEPT !.f.orders = orders]))

\* getFulfilledOrders / getOrderById fails
OrdersRejected(j) ==
  /\ sync[j].pc = "orders"
  /\ SyncCommit(j, SyncThrow(SyncWorld(j), ShopifyError("Failed to fetch orders")))

\* getFulfilledOrders (sweep) or getOrderById (webhook) settles
OrdersReturn(j) ==
  \/ \E orders \in OrderLists : OrdersResolved(j, orders)
  \/ OrdersRejected(j)

\* getOrderFulfillments delivers inside processOrder (sync.service.ts:152-154)
FulfillmentsResolved(j, fulfillments) ==
  /\ sync[j].pc = "fulfillments"
  /\ LET ws == SyncWorld(j)
     IN SyncCommit(j, ProcessOrders(OrderMapped(ws, ws.f.orders[ws.f.k + 1], fulfillments)))

\* getOrderFulfillments fails inside processOrder
FulfillmentsRejected(j) ==
  /\ sync[j].pc = "fulfillments"
  /\ SyncCommit(j, OrderFailed(SyncWorld(j), ShopifyError("Failed to fetch fulfillments")))

\* getOrderFulfillments settles
FulfillmentsReturn(j) ==
  \/ /\ sync[j].pc = "fulfillments"
     /\ \E fulfillments \in FulfillmentLists(sync[j].orders[sync[j].k + 1].id) :
          FulfillmentsResolved(j, fulfillments)
  \/ FulfillmentsRejected(j)

\* the submission to HanteoService settles: sendSalesDataInBatches returns its
\* totals (sync.service.ts:121-134); sendSalesData returns or throws
\* (sync.service.ts:240-258)
SubmitReturns(j) ==
  /\ sync[j].pc = "submit"
  /\ \/ SyncCommit(j, SyncReturn(SyncWorld(j)))
     \/ /\ sync[j].entry = "webhook"
        /\ SyncCommit(j, SyncThrow(SyncWorld(j),
                                   [name |-> "HanteoError",
                                    message |-> <<"Hanteo Error: ", "submission failed">>]))

\* the job's handler has ended; the job can run again
SyncForget(j) ==
  /\ sync[j].pc = "done"
  /\ sync' = [sync EXCEPT ![j] = InitSync]
  /\ UNCHANGED <<now, albumProductsCache, lastCacheUpdate>>
  /\ UNCHANGED hanteoVars
  /\ UNCHANGED utilVars

\* half an hour passes
TickHalfHour ==
  /\ now < MaxHalfHours * 30 * Minute
  /\ now' = now + 30 * Minute
  /\ UNCHANGED hanteoVars
  /\ UNCHANGED syncVars
  /\ UNCHANGED utilVars

SyncNext ==
  \/ \E j \in Jobs : CallProcessRecentFulfilledOrders(j)
  \/ \E j \in Jobs : CallProcessWebhookFulfillment(j)
  \/ \E j \in Jobs : CallSyncAlbumProducts(j)
  \/ \E j \in Jobs : AlbumProductsReturn(j)
  \/ \E j \in Jobs : OrdersReturn(j)
  \/ \E j \in Jobs : FulfillmentsReturn(j)
  \/ \E j \in Jobs : SubmitReturns(j)
  \/ \E j \in Jobs : SyncForget(j)
  \/ TickHalfHour

SyncSpec == Init /\ [][SyncNext]_vars

\* ==== processOrder on the orders Shopify can deliver ================================
\* the sweep alone, with orders whose fulfillments and line items vary
\* line items: variant 1 and variant 2 can be in the catalog, variant 3 never is
LineItems == [a |-> LineItem(1, 1, 2), b |-> LineItem(2, 2, 1), c |-> LineItem(3, 3, 1)]

\* fulfillments of one order: with a tracking number; with tracking_numbers only
\* and the rest of line item 1 (split shipment); without tracking; of an unknown
\* variant; with no line item of its own
Fulfillments ==
  {ShopifyFulfillment(1, "KR1", <<>>, <<LineItems.a>>),
   ShopifyFulfillment(2, "", <<"KR2">>, <<LineItems.a, LineItems.b>>),
   ShopifyFulfillment(3, "", <<>>, <<LineItems.b>>),
   ShopifyFulfillment(4, "KR4", <<>>, <<LineItems.c>>),
   ShopifyFulfillment(5, "KR5", <<>>, <<>>)}

\* one or two different fulfillments
ShippedLists ==
  {<<f>> : f \in Fulfillments}
  \cup {<<pair[1], pair[2]>> :
          pair \in {q \in Fulfillments \X Fulfillments : q[1] # q[2]}}

\* the order of the sweep, with its fulfillments included or to be fetched
ShippedOrders ==
  {ShopifyOrder(1, <<LineItems.a>>, fulfillments) : fulfillments \in ShippedLists \cup {<<>>}}

OrderNext ==
  \/ CallProcessRecentFulfilledOrders("sweep")
  \/ AlbumProductsReturn("sweep")
  \/ \E order \in ShippedOrders : OrdersResolved("sweep", <<order>>)
  \/ OrdersRejected("sweep")
  \/ \E fulfillments \in ShippedLists : FulfillmentsResolved("sweep", fulfillments)
  \/ FulfillmentsRejected("sweep")
  \/ SubmitReturns("sweep")
  \/ SyncForget("sweep")

OrderSpec == Init /\ [][OrderNext]_vars

\* ==== validators and extractors (validators.ts, sync.service.ts) ==================
DigitChars == <<"0", "1", "2", "3", "4", "5", "6", "7", "8", "9">>

\* [0-9]
IsDigit(ch) == \E d \in 1..10 : DigitChars[d] = ch

\* the white space String.prototype.trim removes and \s matches (those that occur)
IsWhiteSpace(ch) == ch \in {" ", "\t", "\n"}

\* /^[0-9]{n}$/
AllDigits(s, n) == Len(s) = n /\ \A i \in 1..Len(s) : IsDigit(s[i])

RECURSIVE TrimStart(_)
TrimStart(s) ==
  IF s # <<>> /\ IsWhiteSpace(Head(s)) THEN TrimStart(Tail(s)) ELSE s

RECURSIVE TrimEnd(_)
TrimEnd(s) ==
  IF s # <<>> /\ IsWhiteSpace(s[Len(s)]) THEN TrimEnd(SubSeq(s, 1, Len(s) - 1)) ELSE s

\* String.prototype.trim
Trim(s) == TrimEnd(TrimStart(s))

\* BARCODE_PATTERNS (part_001:190-196)
BARCODE_PATTERNS == {"EAN13", "EAN8", "UPC", "ISBN10", "ISBN13"}

\* pattern.test(s) for the pattern of that name
PatternTest(pattern, s) ==
  CASE pattern = "EAN13" -> AllDigits(s, 13)
    [] pattern = "EAN8" -> AllDigits(s, 8)
    [] pattern = "UPC" -> AllDigits(s, 12)
    [] pattern = "ISBN10" -> /\ Len(s) = 10
                             /\ AllDigits(SubSeq(s, 1, 9), 9)
                             /\ (IsDigit(s[10]) \/ s[10] = "X")
    [] pattern = "ISBN13" -> /\ Len(s) = 13
                             /\ s[1] = "9" /\ s[2] = "7" /\ s[3] \in {"8", "9"}
                             /\ AllDigits(SubSeq(s, 4, 13), 10)

\* isValidBarcode without the trim
isValidBarcodeUntrimmed(barcode) ==
  IF ~barcode.present \/ barcode.text = <<>> THEN FALSE
  ELSE \E pattern \in BARCODE_PATTERNS : PatternTest(pattern, barcode.text)

\* isValidBarcode (part_001:198-215); null, undefined and '' are falsy
isValidBarcode(barcode) ==
  IF ~barcode.present \/ barcode.text = <<>> THEN FALSE
  ELSE LET cleanBarcode == Trim(barcode.text)
       IN IF Len(cleanBarcode) = 0 THEN FALSE
          ELSE \E pattern \in BARCODE_PATTERNS : PatternTest(pattern, cleanBarcode)

\* ---- strings ---------------------------------------------------------------------
UpperChars == <<"A", "B", "C", "D", "E", "F", "G", "H", "I", "J", "K", "L", "M",
                "N", "O", "P", "Q", "R", "S", "T", "U", "V", "W", "X", "Y", "Z">>

LowerChars == <<"a", "b", "c", "d", "e", "f", "g", "h", "i", "j", "k", "l", "m",
                "n", "o", "p", "q", "r", "s", "t", "u", "v", "w", "x", "y", "z">>

\* String.prototype.toLowerCase
toLowerCase(s) ==
  [i \in 1..Len(s) |->
     IF \E n \in 1..26 : UpperChars[n] = s[i]
     THEN LowerChars[CHOOSE n \in 1..26 : UpperChars[n] = s[i]]
     ELSE s[i]]

\* s has searchString at index i (from 1)
HasAt(s, i, searchString) ==
  /\ i + Len(searchString) - 1 <= Len(s)
  /\ SubSeq(s, i, i + Len(searchString) - 1) = searchString

\* String.prototype.includes
includes(s, searchString) == \E i \in 1..(Len(s) + 1) : HasAt(s, i, searchString)

\* a string that is neither undefined nor ''
Truthy(str) == str.present /\ str.text # <<>>

\* parseInt of a run of digits
RECURSIVE parseInt(_)
parseInt(s) ==
  IF s = <<>> THEN 0
  ELSE parseInt(SubSeq(s, 1, Len(s) - 1)) * 10
       + (CHOOSE d \in 0..9 : DigitChars[d + 1] = s[Len(s)])

\* Number.prototype.toString of a year of four digits
YearToString(year) ==
  <<DigitChars[((year \div 1000) % 10) + 1], DigitChars[((year \div 100) % 10) + 1],
    DigitChars[((year \div 10) % 10) + 1], DigitChars[(year % 10) + 1]>>

\* ---- extractGenderFromCustomer (sync.service.ts:264-281) --------------------------
extractGenderFromCustomer(customer) ==
  LET tags == toLowerCase(customer.tags.text)
      note == toLowerCase(customer.note.text)
  IN IF Truthy(customer.tags)
        /\ (includes(tags, <<"m", "a", "l", "e">>) \/ includes(tags, <<"m", "a", "n">>))
     THEN Text(<<"M">>)
     ELSE IF Truthy(customer.tags)
             /\ (includes(tags, <<"f", "e", "m", "a", "l", "e">>) \/ includes(tags, <<"w", "o", "m", "a", "n">>))
     THEN Text(<<"W">>)
     ELSE IF Truthy(customer.note)
             /\ (includes(note, <<"g", "e", "n", "d", "e", "r", ":", "m">>) \/ includes(note, <<"g", "e", "n", "d", "e", "r", ":", " ", "m">>))
     THEN Text(<<"M">>)
     ELSE IF Truthy(customer.note)
             /\ (\/ includes(note, <<"g", "e", "n", "d", "e", "r", ":", "f">>) \/ includes(note, <<"g", "e", "n", "d", "e", "r", ":", " ", "f">>)
                 \/ includes(note, <<"g", "e", "n", "d", "e", "r", ":", "w">>) \/ includes(note, <<"g", "e", "n", "d", "e", "r", ":", " ", "w">>))
     THEN Text(<<"W">>)
     ELSE NoText

\* ---- extractBirthYear (part_001:331-350) -------------------------------------------
\* the first run of four digits: birthDate.match(/[0-9]{4}/)
FourDigits(s) ==
  LET at == {i \in 1..Len(s) : i + 3 <= Len(s) /\ \A k \in i..(i + 3) : IsDigit(s[k])}
  IN IF at = {} THEN <<>>
     ELSE LET i == CHOOSE i \in at : \A k \in at : i <= k IN SubSeq(s, i, i + 3)

\* the date-only forms of the Date Time String Format: YYYY, YYYY-MM, YYYY-MM-DD
IsDateOnlyForm(s) ==
  /\ Len(s) \in {4, 7, 10}
  /\ \A i \in 1..Len(s) : IF i \in {5, 8} THEN s[i] = "-" ELSE IsDigit(s[i])
  /\ Len(s) >= 7 => parseInt(SubSeq(s, 6, 7)) \in 1..12
  /\ Len(s) = 10 => parseInt(SubSeq(s, 9, 10)) \in 1..28

\* new Date(s): a date-only form is midnight UTC of that day, which west of
\* Greenwich is the evening before in local time; any other string is parsed by
\* the engine's own heuristics, which accept it (lenient) or do not
NewDate(s, lenient, west) ==
  IF IsDateOnlyForm(s)
  THEN LET year == parseInt(SubSeq(s, 1, 4))
           firstOfJanuary == /\ Len(s) >= 7 => parseInt(SubSeq(s, 6, 7)) = 1
                             /\ Len(s) = 10 => parseInt(SubSeq(s, 9, 10)) = 1
       IN [valid |-> TRUE, fullYear |-> IF west /\ firstOfJanuary THEN year - 1 ELSE year]
  ELSE IF lenient /\ FourDigits(s) # <<>>
       THEN [valid |-> TRUE, fullYear |-> parseInt(FourDigits(s))]
       ELSE [valid |-> FALSE, fullYear |-> 0]

extractBirthYear(birthDate, currentYear, lenient, west) ==
  IF ~Truthy(birthDate) THEN NoText
  ELSE LET date == NewDate(birthDate.text, lenient, west)
           yearMatch == FourDigits(birthDate.text)
       IN IF date.valid THEN Text(YearToString(date.fullYear))
          ELSE IF yearMatch # <<>>
                  /\ parseInt(yearMatch) >= 1900 /\ parseInt(yearMatch) <= currentYear
               THEN Text(YearToString(parseInt(yearMatch)))
               ELSE NoText

\* ---- extractBirthYearFromCustomer (sync.service.ts:286-310) -------------------------
\* [:\s]* from index j: the index of the first character it does not take
RECURSIVE SkipSeparators(_, _)
SkipSeparators(s, j) ==
  IF j <= Len(s) /\ (s[j] = ":" \/ IsWhiteSpace(s[j])) THEN SkipSeparators(s, j + 1) ELSE j

\* /birth[_-]?<word>[:\s]*/i at index i: the index after the match, 0 if none
KeyAt(s, i, word) ==
  LET lower == toLowerCase(s)
      j == i + 5
  IN IF ~HasAt(lower, i, <<"b", "i", "r", "t", "h">>) THEN 0
     ELSE IF j <= Len(s) /\ s[j] \in {"_", "-"} /\ HasAt(lower, j + 1, word)
          THEN SkipSeparators(s, j + 1 + Len(word))
          ELSE IF HasAt(lower, j, word) THEN SkipSeparators(s, j + Len(word))
               ELSE 0

\* ([0-9\-\/]+) from index k: the characters it takes
RECURSIVE DateChars(_, _)
DateChars(s, k) ==
  IF k <= Len(s) /\ (IsDigit(s[k]) \/ s[k] \in {"-", "/"})
  THEN <<s[k]>> \o DateChars(s, k + 1)
  ELSE <<>>

\* str.match(/birth[_-]?year[:\s]*([0-9]{4})/i): group 1 of the leftmost match
BirthYearMatch(s) ==
  LET group(i) == LET k == KeyAt(s, i, <<"y", "e", "a", "r">>)
                  IN IF k = 0 THEN <<>> ELSE FourDigits(SubSeq(s, k, Min(k + 3, Len(s))))
      at == {i \in 1..Len(s) : group(i) # <<>>}
  IN IF at = {} THEN <<>> ELSE group(CHOOSE i \in at : \A k \in at : i <= k)

\* str.match(/birth[_-]?date[:\s]*([0-9\-\/]+)/i): group 1 of the leftmost match
BirthDateMatch(s) ==
  LET group(i) == LET k == KeyAt(s, i, <<"d", "a", "t", "e">>)
                  IN IF k = 0 THEN <<>> ELSE DateChars(s, k)
      at == {i \in 1..Len(s) : group(i) # <<>>}
  IN IF at = {} THEN <<>> ELSE group(CHOOSE i \in at : \A k \in at : i <= k)

extractBirthYearFromCustomer(customer, currentYear, lenient, west) ==
  IF Truthy(customer.tags) /\ BirthYearMatch(customer.tags.text) # <<>>
  THEN Text(BirthYearMatch(customer.tags.text))
  ELSE IF Truthy(customer.note) /\ BirthYearMatch(customer.note.text) # <<>>
  THEN Text(BirthYearMatch(customer.note.text))
  ELSE IF Truthy(customer.note) /\ BirthDateMatch(customer.note.text) # <<>>
  THEN extractBirthYear(Text(BirthDateMatch(customer.note.text)), currentYear, lenient, west)
  ELSE NoText

\* ---- inputs ---------------------------------------------------------------------
\* the longest run of digits tried (one more than the longest barcode)
MaxDigits == 14

\* n digits: 9 7 8 0 1 2 ...
DigitRun(n) == [i \in 1..n |-> IF i = 1 THEN "9" ELSE IF i = 2 THEN "7" ELSE IF i = 3 THEN "8"
                                ELSE DigitChars[((i - 4) % 10) + 1]]

\* a run of digits, or one with one character replaced by a letter or a blank
BarcodeCores ==
  {DigitRun(n) : n \in 0..MaxDigits}
  \cup {[DigitRun(in.n) EXCEPT ![in.at] = in.ch] :
          in \in {x \in [n : 1..MaxDigits, at : 1..MaxDigits, ch : {"X", "x", "A", " "}] :
                    x.at <= x.n}}

\* the arguments of isValidBarcode: null / undefined, or a core with or without
\* white space around it
Barcodes ==
  {NoText}
  \cup {Text(lead \o core \o trail) :
          lead \in {<<>>, <<" ">>}, core \in BarcodeCores, trail \in {<<>>, <<" ">>, <<" ", "\n">>}}

\* new Date().getFullYear() in the run
CurrentYear == 2025

\* birth years at the edges of [1900, current year]
BirthYears == {1899, 1900, CurrentYear, CurrentYear + 1}

\* customer.tags: none, gender keywords, other tags, a birth_year tag
CustomerTags ==
  {NoText, Text(<<"v", "i", "p">>), Text(<<"m", "a", "l", "e">>), Text(<<"f", "e", "m", "a", "l", "e">>),
   Text(<<"w", "o", "m", "a", "n", ",", "v", "i", "p">>), Text(<<"V", "I", "P", ",", "M", "a", "n">>), Text(<<"g", "e", "n", "d", "e", "r", ":", "M">>),
   Text(<<"g", "e", "n", "d", "e", "r", ":", "M", ",", "b", "i", "r", "t", "h", "_", "y", "e", "a", "r", ":", "1", "9", "9", "0">>)}
  \cup {Text(<<"b", "i", "r", "t", "h", "_", "y", "e", "a", "r", ":">> \o YearToString(year)) : year \in BirthYears}

\* customer.note: none, a gender note, a birth year, a birth date in three forms
CustomerNotes ==
  {NoText, Text(<<"c", "a", "l", "l", " ", "f", "i", "r", "s", "t">>), Text(<<"G", "e", "n", "d", "e", "r", ":", " ", "M">>), Text(<<"g", "e", "n", "d", "e", "r", ":", "f">>)}
  \cup {Text(<<"B", "i", "r", "t", "h", "-", "Y", "e", "a", "r", " ">> \o YearToString(year)) : year \in BirthYears}
  \cup {Text(<<"b", "i", "r", "t", "h", "_", "d", "a", "t", "e", ":">> \o YearToString(year)) : year \in BirthYears}
  \cup {Text(<<"b", "i", "r", "t", "h", "d", "a", "t", "e", ":", " ">> \o YearToString(year) \o <<"-", "0", "1", "-", "0", "1">>) : year \in BirthYears}
  \cup {Text(<<"b", "i", "r", "t", "h", "d", "a", "t", "e", ":", " ", "0", "6", "/", "1", "5", "/">> \o YearToString(year)) : year \in BirthYears}

Customers == {Customer(tags, note) : tags \in CustomerTags, note \in CustomerNotes}

\* ---- actions --------------------------------------------------------------------
UtilCommit(c) ==
  /\ call' = c
  /\ UNCHANGED <<fetch, hook>>
  /\ UNCHANGED now
  /\ UNCHANGED hanteoVars
  /\ UNCHANGED syncVars

\* the states in which a validator or extractor has just been called
ValidatorsInit ==
  /\ token = NoToken
  /\ now = 0
  /\ callers = {"sweep"}
  /\ proc = [c \in Callers |-> InitProc]
  /\ albumProductsCache = {}
  /\ lastCacheUpdate = 0
  /\ sync = [j \in Jobs |-> InitSync]
  /\ fetch = NoFetch
  /\ hook = NoHook
  /\ \/ \E barcode \in Barcodes :
          call = [NoCall EXCEPT !.fn = "isValidBarcode", !.pc = "called",
                                !.barcode = barcode]
     \/ \E customer \in Customers :
          call = [NoCall EXCEPT !.fn = "customerInfo", !.pc = "called",
                                !.customer = customer]
     \/ call = [NoCall EXCEPT !.fn = "generateOpVal", !.pc = "called"]

\* isValidBarcode returns
IsValidBarcodeReturns ==
  /\ call.fn = "isValidBarcode" /\ call.pc = "called"
  /\ UtilCommit([call EXCEPT !.pc = "returned", !.valid = isValidBarcode(call.barcode)])

\* customerInfo of processOrder (sync.service.ts:176-181) is built, on an engine
\* with or without lenient date parsing, west or east of Greenwich
CustomerInfoReturns ==
  /\ call.fn = "customerInfo" /\ call.pc = "called"
  /\ \E lenient \in BOOLEAN, west \in BOOLEAN :
       UtilCommit([call EXCEPT
         !.pc = "returned",
         !.gender = extractGenderFromCustomer(call.customer),
         !.birthYear = extractBirthYearFromCustomer(call.customer, CurrentYear,
                                                    lenient, west)])

\* generateOpVal (part_001:311-313) returns, for order 1 and line item 1; it is
\* called once more after the first call
GenerateOpValReturns ==
  /\ call.fn = "generateOpVal" /\ call.pc = "called"
  /\ UtilCommit([call EXCEPT
       !.opVals = Append(@, generateOpVal(1, 1)),
       !.pc = IF Len(call.opVals) = 0 THEN "called" ELSE "returned"])

\* Date.now() moves on by a millisecond between two calls of generateOpVal
MillisecondPasses ==
  /\ call.fn = "generateOpVal" /\ call.pc = "called"
  /\ now < MaxMillis
  /\ now' = now + 1
  /\ UNCHANGED utilVars
  /\ UNCHANGED hanteoVars
  /\ UNCHANGED syncVars

ValidatorsNext ==
  \/ IsValidBarcodeReturns
  \/ CustomerInfoReturns
  \/ GenerateOpValReturns
  \/ MillisecondPasses

ValidatorsSpec == ValidatorsInit /\ [][ValidatorsNext]_vars

\* ==== ShopifyService (shopify.service.ts) =========================================
\* ORDER_PARAMS.limit (hanteo.config.ts:216)
ORDER_PARAMS_limit == 250
\* retryWithBackoff is called with maxRetries: 3 (shopify.service.ts:75, 156)
shopifyMaxRetries == 3
\* the two cooling-off delays of respectRateLimit (shopify.service.ts:330)
longDelay == 2000
shortDelay == 1000

\* full pages the server delivers before a short one
MaxPages == 2

\* respectRateLimit (shopify.service.ts:322-335) with the thresholds at or above
RateLimitDelayAtOrAbove(headers) ==
  IF ~headers.present THEN 0
  ELSE IF headers.used * 100 >= 80 * headers.limit
       THEN (IF headers.used * 100 >= 95 * headers.limit THEN longDelay ELSE shortDelay)
       ELSE 0

\* respectRateLimit (shopify.service.ts:322-335): the length of the timer it
\* awaits, 0 when it awaits none; (used / limit) * 100 > 80 in floating point is
\* used * 100 > 80 * limit for the quotas tried
RateLimitDelay(headers) ==
  IF ~headers.present THEN 0
  ELSE IF headers.used * 100 > 80 * headers.limit
       THEN (IF headers.used * 100 > 95 * headers.limit THEN longDelay ELSE shortDelay)
       ELSE 0

\* the ids of the n orders on a page
OrderRows(page, limit, n) == [i \in 1..n |-> (page - 1) * limit + i]

\* the request of the next turn of the while loop is sent, or the loop is left
\* and the orders are returned (shopify.service.ts:143-182)
NextOrderPage(f) ==
  IF f.hasMore
  THEN [f EXCEPT !.pc = "request", !.attempt = 0, !.wait = 0,
                 !.requests = Append(@, f.page)]
  ELSE [f EXCEPT !.pc = "returned", !.wait = 0,
                 !.result = [present |-> TRUE, rows |-> f.orders]]

\* shopify.service.ts:163-178 without the test of line 172
OrderPageUntilEmpty(f, n, headers) ==
  LET counted == IF n = 0
                 THEN [f EXCEPT !.hasMore = FALSE]
                 ELSE [f EXCEPT !.orders = @ \o OrderRows(f.page, f.limit, n),
                                !.page = @ + 1]
      seen == [counted EXCEPT !.fetched = n, !.headers = headers]
  IN IF RateLimitDelay(headers) > 0
     THEN [seen EXCEPT !.pc = "cooling", !.wait = RateLimitDelay(headers)]
     ELSE NextOrderPage(seen)

\* shopify.service.ts:163-178: a page has arrived
OrderPage(f, n, headers) ==
  LET counted == IF n = 0
                 THEN [f EXCEPT !.hasMore = FALSE]
                 ELSE [f EXCEPT !.orders = @ \o OrderRows(f.page, f.limit, n),
                                !.page = @ + 1,
                                !.hasMore = ~(n < f.limit)]
      seen == [counted EXCEPT !.fetched = n, !.headers = headers]
  IN IF RateLimitDelay(headers) > 0
     THEN [seen EXCEPT !.pc = "cooling", !.wait = RateLimitDelay(headers)]
     ELSE NextOrderPage(seen)

\* retryWithBackoff's catch (part_001:156-179) inside getFulfilledOrders and its
\* catch (shopify.service.ts:184-187)
OrderRequestFailed(f) ==
  IF f.attempt = shopifyMaxRetries
  THEN [f EXCEPT !.pc = "threw", !.error = ShopifyError("Failed to fetch orders")]
  ELSE [f EXCEPT !.pc = "backoff",
                 !.wait = BackoffDelay(retryDelay, defaultFactor, defaultMaxDelay,
                                       f.attempt)]

\* ---- getAlbumProducts (shopify.service.ts:22-130) ------------------------------
\* String.prototype.split(',')
RECURSIVE Split(_)
Split(s) ==
  LET at == {i \in 1..Len(s) : s[i] = ","}
  IN IF at = {} THEN <<s>>
     ELSE LET i == CHOOSE i \in at : \A k \in at : i <= k
          IN <<SubSeq(s, 1, i - 1)>> \o Split(SubSeq(s, i + 1, Len(s)))

\* Array.prototype.join(',')
RECURSIVE Join(_)
Join(strings) ==
  IF strings = <<>> THEN <<>>
  ELSE IF Len(strings) = 1 THEN strings[1]
  ELSE strings[1] \o <<",">> \o Join(Tail(strings))

\* a test for the letters album anywhere in the tags
hasAlbumTagAnywhere(tags) == includes(toLowerCase(tags), <<"a", "l", "b", "u", "m">>)

\* hasAlbumTag (part_001:218-223)
hasAlbumTag(tags) ==
  IF tags = <<>> THEN FALSE
  ELSE LET tagList == [i \in 1..Len(Split(toLowerCase(tags))) |->
                         Trim(Split(toLowerCase(tags))[i])]
       IN \E i \in 1..Len(tagList) : tagList[i] \in {<<"a", "l", "b", "u", "m">>, <<"a", "l", "b", "u", "m", "s">>}

\* the digits a string ends with
RECURSIVE TrailingDigits(_)
TrailingDigits(s) ==
  IF s # <<>> /\ IsDigit(s[Len(s)])
  THEN TrailingDigits(SubSeq(s, 1, Len(s) - 1)) \o <<s[Len(s)]>>
  ELSE <<>>

\* extractIdFromGid (shopify.service.ts:314-317): gid.match(/\/(\d+)$/)
extractIdFromGid(gid) ==
  LET digits == TrailingDigits(gid)
  IN IF digits # <<>> /\ Len(gid) > Len(digits) /\ gid[Len(gid) - Len(digits)] = "/"
     THEN parseInt(digits) ELSE 0

\* a variant node and a product node of the GraphQL answer, reduced to the fields
\* the filter reads and one of the fields validateAlbumProduct requires (vendor)
Variant(id, barcode) == [id |-> id, barcode |-> barcode]

Product(id, vendor, tags, variants) ==
  [id |-> id, vendor |-> vendor, tags |-> tags, variants |-> variants]

\* validateAlbumProduct (part_001:226-251): no product (null) or the one product
\* with its barcode trimmed
validateAlbumProduct(product) ==
  IF product.vendor = <<>> \/ ~isValidBarcode(Text(product.barcode)) THEN <<>>
  ELSE <<[product EXCEPT !.barcode = Trim(@)]>>

\* the inner loop of getAlbumProducts (shopify.service.ts:93-117)
RECURSIVE VariantAlbums(_, _)
VariantAlbums(product, variants) ==
  IF variants = <<>> THEN <<>>
  ELSE LET variant == Head(variants)
           albumProduct == [productId |-> extractIdFromGid(product.id),
                            variantId |-> extractIdFromGid(variant.id),
                            vendor |-> product.vendor,
                            barcode |-> Trim(variant.barcode.text),
                            tags |-> product.tags]
       IN (IF ~isValidBarcode(variant.barcode) THEN <<>>
           ELSE validateAlbumProduct(albumProduct))
          \o VariantAlbums(product, Tail(variants))

\* the outer loop of getAlbumProducts (shopify.service.ts:84-118)
RECURSIVE PageAlbums(_)
PageAlbums(edges) ==
  IF edges = <<>> THEN <<>>
  ELSE (IF ~hasAlbumTag(Join(Head(edges).tags)) THEN <<>>
        ELSE VariantAlbums(Head(edges), Head(edges).variants))
       \o PageAlbums(Tail(edges))

\* shopify.service.ts:82-124: a page of the catalog has arrived; the next request
\* is sent, or the loop is left and the albums are returned
CatalogPage(f, edges, hasNextPage, headers) ==
  LET seen == [f EXCEPT !.albums = @ \o PageAlbums(edges),
                        !.hasNextPage = hasNextPage,
                        !.endCursor = @ + 1,
                        !.fetched = @ + Len(edges),
                        !.headers = headers]
  IN IF hasNextPage
     THEN [seen EXCEPT !.pc = "request", !.attempt = 0,
                       !.requests = Append(@, seen.endCursor)]
     ELSE [seen EXCEPT !.pc = "returned",
                       !.result = [present |-> TRUE, rows |-> seen.albums]]

\* retryWithBackoff's catch (part_001:156-179) inside getAlbumProducts and its
\* catch (shopify.service.ts:126-129)
CatalogRequestFailed(f) ==
  IF f.attempt = shopifyMaxRetries
  THEN [f EXCEPT !.pc = "threw", !.error = ShopifyError("Failed to fetch products")]
  ELSE [f EXCEPT !.pc = "backoff",
                 !.wait = BackoffDelay(retryDelay, defaultFactor, defaultMaxDelay,
                                       f.attempt)]

\* getAlbumProducts has been called and its first request is on its way
GetAlbumProducts ==
  [NoFetch EXCEPT !.fn = "getAlbumProducts", !.pc = "request", !.requests = <<0>>]

\* pages of the catalog before the last one
MaxCatalogPages == 2

ValidBarcode == Text(DigitRun(13))

\* the products of the catalog: with and without an album tag, with a valid, a
\* padded, an invalid and no barcode, without a vendor, with an id that is no gid
Products ==
  {Product(<<"P", "/", "1">>, <<"v">>, <<<<"A", "l", "b", "u", "m">>>>, <<Variant(<<"V", "/", "1">>, ValidBarcode)>>),
   Product(<<"P", "/", "2">>, <<"v">>, <<<<"v", "i", "n", "y", "l">>, <<" ", "A", "L", "B", "U", "M", "S">>>>,
           <<Variant(<<"V", "/", "2">>, Text(<<" ">> \o DigitRun(12) \o <<" ">>))>>),
   Product(<<"P", "/", "3">>, <<"v">>, <<<<"a", "l", "b", "u", "m", "a", "r", "t">>>>, <<Variant(<<"V", "/", "3">>, ValidBarcode)>>),
   Product(<<"P", "/", "4">>, <<"v">>, <<>>, <<Variant(<<"V", "/", "4">>, ValidBarcode)>>),
   Product(<<"P", "/", "5">>, <<"v">>, <<<<"A", "l", "b", "u", "m">>>>,
           <<Variant(<<"V", "/", "5">>, Text(DigitRun(5))), Variant(<<"V", "/", "6">>, NoText),
             Variant(<<"V", "/", "7">>, ValidBarcode)>>),
   Product(<<"P", "/", "8">>, <<>>, <<<<"A", "l", "b", "u", "m">>>>, <<Variant(<<"V", "/", "8">>, ValidBarcode)>>),
   Product(<<"P", "/", "9">>, <<"v">>, <<<<"a", "l", "b", "u", "m", "s">>>>, <<Variant(<<"V", "9">>, ValidBarcode)>>)}

\* the quota headers of catalog answers
CatalogHeaders == {NoHeader, ApiCallLimit(39, 40)}

\* the quota headers tried: none, and usage at, below and above 80% and 95%
Headers ==
  {NoHeader, ApiCallLimit(10, 40), ApiCallLimit(32, 40), ApiCallLimit(33, 40),
   ApiCallLimit(38, 40), ApiCallLimit(39, 40)}

\* filter.limit, or ORDER_PARAMS.limit when the filter has none (shopify.service.ts:144-148)
Limits == {1, 2, ORDER_PARAMS_limit}

\* the sizes of a page: empty, one row, one less than full, full
PageSizes(limit) == {0, 1, limit - 1, limit}

FetchCommit(f) ==
  /\ fetch' = f
  /\ UNCHANGED <<now, call, hook>>
  /\ UNCHANGED hanteoVars
  /\ UNCHANGED syncVars

\* getFulfilledOrders has been called and its first request is on its way
FetchInit ==
  /\ token = NoToken
  /\ now = 0
  /\ callers = {"sweep"}
  /\ proc = [c \in Callers |-> InitProc]
  /\ albumProductsCache = {}
  /\ lastCacheUpdate = 0
  /\ sync = [j \in Jobs |-> InitSync]
  /\ call = NoCall
  /\ hook = NoHook
  /\ \/ \E limit \in Limits :
          fetch = [NoFetch EXCEPT !.fn = "getFulfilledOrders", !.pc = "request",
                                  !.limit = limit, !.requests = <<1>>]
     \/ fetch = GetAlbumProducts

\* restClient.get resolves
OrderPageResolved ==
  /\ fetch.fn = "getFulfilledOrders" /\ fetch.pc = "request"
  /\ \E n \in PageSizes(fetch.limit), headers \in Headers :
       /\ n = fetch.limit => fetch.page <= MaxPages
       /\ FetchCommit(OrderPage(fetch, n, headers))

\* restClient.get rejects
OrderPageRejected ==
  /\ fetch.fn = "getFulfilledOrders" /\ fetch.pc = "request"
  /\ FetchCommit(OrderRequestFailed(fetch))

\* the timer of retryWithBackoff fires and the same page is requested again
\* (part_001:178, 153-155)
OrderBackoffElapses ==
  /\ fetch.fn = "getFulfilledOrders" /\ fetch.pc = "backoff"
  /\ FetchCommit([fetch EXCEPT !.pc = "request", !.attempt = @ + 1, !.wait = 0,
                               !.requests = Append(@, fetch.page)])

\* the timer of respectRateLimit fires (shopify.service.ts:332)
CoolingElapses ==
  /\ fetch.fn = "getFulfilledOrders" /\ fetch.pc = "cooling"
  /\ FetchCommit(NextOrderPage(fetch))

\* graphqlClient.request resolves
CatalogPageResolved ==
  /\ fetch.fn = "getAlbumProducts" /\ fetch.pc = "request"
  /\ \E product \in Products, hasNextPage \in BOOLEAN, headers \in CatalogHeaders :
       /\ hasNextPage => fetch.endCursor + 1 < MaxCatalogPages
       /\ FetchCommit(CatalogPage(fetch, <<product>>, hasNextPage, headers))

\* graphqlClient.request rejects
CatalogPageRejected ==
  /\ fetch.fn = "getAlbumProducts" /\ fetch.pc = "request"
  /\ FetchCommit(CatalogRequestFailed(fetch))

\* the timer of retryWithBackoff fires and the same page is requested again
CatalogBackoffElapses ==
  /\ fetch.fn = "getAlbumProducts" /\ fetch.pc = "backoff"
  /\ FetchCommit([fetch EXCEPT !.pc = "request", !.attempt = @ + 1, !.wait = 0,
                               !.requests = Append(@, fetch.endCursor)])

\* syncAlbumProducts after its await (sync.service.ts:29-36): the cache is
\* cleared and rebuilt from what getAlbumProducts returned
AlbumProductsStored ==
  /\ fetch.fn = "getAlbumProducts" /\ fetch.pc = "returned"
  /\ albumProductsCache' = SetAll({}, fetch.result.rows)
  /\ lastCacheUpdate' = now
  /\ fetch' = [fetch EXCEPT !.pc = "stored"]
  /\ UNCHANGED <<now, call, hook, sync>>
  /\ UNCHANGED hanteoVars

\* syncAlbumProducts is called again, after a refresh or a failed one
\* (sync.service.ts:23)
SyncAlbumProductsAgain ==
  /\ fetch.fn = "getAlbumProducts" /\ fetch.pc \in {"stored", "threw"}
  /\ FetchCommit(GetAlbumProducts)

FetchNext ==
  \/ OrderPageResolved
  \/ OrderPageRejected
  \/ OrderBackoffElapses
  \/ CoolingElapses
  \/ CatalogPageResolved
  \/ CatalogPageRejected
  \/ CatalogBackoffElapses
  \/ AlbumProductsStored
  \/ SyncAlbumProductsAgain

FetchSpec == FetchInit /\ [][FetchNext]_vars

\* ==== the webhook handler (order-fulfillment.webhook.ts) ===========================
\* createHmac('sha256', secret).update(rawBody, 'utf8').digest('base64'): a
\* digest names the body it was made from
Hmac(rawBody) == <<"sha256", rawBody>>

\* verifyWebhookSignature (order-fulfillment.webhook.ts:13-24); update() throws a
\* TypeError for a rawBody that is undefined
verifyWebhookSignature(rawBody, signature) ==
  IF rawBody = "" THEN "TypeError"
  ELSE IF Hmac(rawBody) = signature THEN "true" ELSE "false"

\* the topics and states for which processOrderFulfillment is called
\* (order-fulfillment.webhook.ts:54-71)
Processed(req) ==
  \/ req.topic \in {"orders/fulfilled", "fulfillments/create", "fulfillments/update"}
  \/ /\ req.topic = "orders/updated"
     /\ req.fulfillment_status \in {"fulfilled", "partial"}

\* handleOrderFulfillment up to its await, or to its end when it awaits nothing
\* (order-fulfillment.webhook.ts:30-75); what it throws goes through asyncHandler
\* (part_001:126-130) to the error middleware (index.ts:81-101)
HandleOrderFulfillment(h) ==
  LET req == h.req
      isValid == verifyWebhookSignature(req.rawBody, req.hmac)
  IN IF req.secret /\ isValid = "TypeError"
     THEN [h EXCEPT !.pc = "done", !.status = 500, !.outcome = "next(err)"]
     ELSE IF req.secret /\ isValid = "false"
     THEN [h EXCEPT !.pc = "done", !.status = 401, !.outcome = "resolved"]
     ELSE IF Processed(req)
     THEN [h EXCEPT !.pc = "await", !.immediate = TRUE]
     ELSE [h EXCEPT !.pc = "done", !.status = 200, !.outcome = "resolved"]

\* the requests: with and without a configured secret, with and without
\* req.rawBody, signed for that body, for another body, or unsigned
Requests ==
  {Request(secret, rawBody, hmac, topic, fulfillment_status) :
     secret \in BOOLEAN, rawBody \in {"", "body"},
     hmac \in {<<>>, Hmac("body"), Hmac("other")},
     topic \in {"orders/fulfilled", "fulfillments/create", "fulfillments/update",
                "orders/updated", "unknown/topic"},
     fulfillment_status \in {"fulfilled", "partial", "pending"}}

HookCommit(h) ==
  /\ hook' = h
  /\ UNCHANGED <<now, call, fetch>>
  /\ UNCHANGED hanteoVars
  /\ UNCHANGED syncVars

\* a request has reached the route
WebhookInit ==
  /\ token = NoToken
  /\ now = 0
  /\ callers = {"sweep"}
  /\ proc = [c \in Callers |-> InitProc]
  /\ albumProductsCache = {}
  /\ lastCacheUpdate = 0
  /\ sync = [j \in Jobs |-> InitSync]
  /\ call = NoCall
  /\ fetch = NoFetch
  /\ \E req \in Requests : hook = [NoHook EXCEPT !.pc = "received", !.req = req]

\* the handler runs
HandlerRuns ==
  /\ hook.pc = "received"
  /\ HookCommit(HandleOrderFulfillment(hook))

\* the await of processOrderFulfillment is over: a microtask, which runs before
\* any callback of setImmediate (order-fulfillment.webhook.ts:58-74)
HandlerResumes ==
  /\ hook.pc = "await"
  /\ HookCommit([hook EXCEPT !.pc = "done", !.status = 200, !.outcome = "resolved"])

\* the callback of setImmediate runs and calls processWebhookFulfillment
\* (order-fulfillment.webhook.ts:83-85)
ImmediateRuns ==
  /\ hook.immediate /\ hook.pc = "done"
  /\ HookCommit([hook EXCEPT !.immediate = FALSE, !.processing = "started"])

\* processWebhookFulfillment resolves
ProcessingResolves ==
  /\ hook.processing = "started"
  /\ HookCommit([hook EXCEPT !.processing = "done"])

\* processWebhookFulfillment rejects and the callback's catch logs the error
\* (order-fulfillment.webhook.ts:86-89)
ProcessingRejects ==
  /\ hook.processing = "started"
  /\ HookCommit([hook EXCEPT !.processing = "failed"])

WebhookNext ==
  \/ HandlerRuns
  \/ HandlerResumes
  \/ ImmediateRuns
  \/ ProcessingResolves
  \/ ProcessingRejects

WebhookSpec == WebhookInit /\ [][WebhookNext]_vars

\* ==== properties ================================================================
InFlight == {"ensured", "auth_ensure", "post", "backoff", "auth_forced"}

\* C1: sendSalesData called with an empty list returns the zero-count success
\* (code 100, all counts 0) and performs no network call, neither a handshake
\* nor a submission POST, whatever the state of the token.
C1_EmptySubmitNoNetwork ==
  \A c \in Callers :
    (proc[c].entry = "single" /\ Len(proc[c].transactions) = 0) =>
      /\ proc[c].seen.nAuth = 0
      /\ proc[c].seen.nPost = 0
      /\ proc[c].pc = "done" => proc[c].ret = Result(ZeroBody)

\* C2: within one sendSalesData call at most one forced re-authentication is
\* performed; a resend that is rejected again surfaces the error.
C2_AtMostOneForcedReauth ==
  \A c \in Callers : proc[c].seen.nForced <= 1

\* C3: a call that found a valid token, whose first POST was answered 401 and
\* whose every later request succeeded, returns success after exactly one
\* handshake and exactly two submission POSTs.
C3_ReauthOnceResendOnce ==
  \A c \in Callers :
    (/\ proc[c].entry = "single" /\ proc[c].pc = "done"
     /\ proc[c].seen.validAtEntry
     /\ proc[c].seen.first = "unauthorized" /\ ~proc[c].seen.laterErr) =>
      /\ proc[c].ret.kind = "result" /\ proc[c].ret.result.code = SUCCESS
      /\ proc[c].seen.nAuth = 1
      /\ proc[c].seen.nPost = 2

\* C4: the POST is retried with backoff only after a transport failure or a
\* 5xx response; a 4xx response is never followed by a backoff retry.
C4_BackoffOnlyOnTransient ==
  \A c \in Callers :
    (proc[c].pc = "backoff" /\ proc[c].last.kind = "post") =>
      (proc[c].last.status = 0 \/ proc[c].last.status \in 500..599)

\* C5: sendSalesData with more than maxBatchSize transactions fails with a
\* HanteoError without any handshake, POST, retry or re-authentication.
C5_OversizeFailsFast ==
  \A c \in Callers :
    (proc[c].entry = "single" /\ Len(proc[c].transactions) > maxBatchSize) =>
      /\ proc[c].seen.nAuth = 0 /\ proc[c].seen.nPost = 0 /\ proc[c].seen.nForced = 0
      /\ proc[c].pc \notin {"auth_ensure", "post", "backoff", "auth_forced"}
      /\ proc[c].pc = "done" =>
           /\ proc[c].ret.kind = "error"
           /\ proc[c].ret.error.name = "HanteoError"
           /\ proc[c].ret.error.code = INVALID_DATA

\* C6: a 2xx answer with code 101 is never returned as a normal result: the call
\* raises a HanteoError with code 101 and the failure map; only code 100 is
\* returned as is; any other code raises an error carrying the raw response.
C6_PartialSuccessRaised ==
  \A c \in Callers :
    (/\ proc[c].entry = "single" /\ proc[c].pc = "done"
     /\ proc[c].last.kind = "post" /\ proc[c].last.status = 200) =>
      /\ proc[c].last.code = PARTIAL_SUCCESS =>
           /\ proc[c].ret.kind = "error"
           /\ proc[c].ret.error.name = "HanteoError"
           /\ proc[c].ret.error.code = PARTIAL_SUCCESS
           /\ proc[c].ret.error.failedData.present
      /\ proc[c].last.code = SUCCESS =>
           (proc[c].ret.kind = "result" /\ proc[c].ret.result.code = SUCCESS)
      /\ proc[c].last.code \notin {SUCCESS, PARTIAL_SUCCESS} =>
           /\ proc[c].ret.kind = "error"
           /\ proc[c].ret.error.details.code = proc[c].last.code

\* C7: every answer that signals token rejection (HTTP 401, or body code 821 or
\* 822 under any HTTP status) invalidates the stored token and starts the
\* re-authentication.
C7_RejectionStartsReauth ==
  \A c \in Callers :
    (/\ proc[c].last.kind = "post"
     /\ (proc[c].last.status = 401
         \/ proc[c].last.code \in {INVALID_TOKEN, TOKEN_EXPIRED})) =>
      (proc[c].pc = "auth_forced" /\ ~token.present)

RECURSIVE Flatten(_)
Flatten(ss) == IF ss = <<>> THEN <<>> ELSE Head(ss) \o Flatten(Tail(ss))

\* the number of places j <= upto of the log that hold one of the events
RECURSIVE CountEvents(_, _, _)
CountEvents(log, events, upto) ==
  IF upto = 0 THEN 0
  ELSE CountEvents(log, events, upto - 1) + (IF log[upto] \in events THEN 1 ELSE 0)

\* C8: the chunks passed to sendSalesData are consecutive slices of the input in
\* input order, all of size batchSize but the last, which holds the rest; when
\* the call returns there are ceil(n / batchSize) of them and each transaction
\* is in exactly one; sendSalesData was invoked once per chunk.
C8_ChunksPartitionInput ==
  \A c \in Callers :
    proc[c].entry = "batch" =>
      LET n == Len(proc[c].input)
          s == proc[c].batchSize
          chunks == proc[c].chunks
          total == CeilDiv(n, s)
      IN /\ Len(chunks) <= total
         /\ \A k \in 1..Len(chunks) :
              /\ chunks[k] = [j \in 1..Len(chunks[k]) |-> proc[c].input[(k - 1) * s + j]]
              /\ Len(chunks[k]) = IF k < total THEN s ELSE n - s * (total - 1)
         /\ CountEvents(proc[c].log, {"send"}, Len(proc[c].log)) = Len(chunks)
         /\ proc[c].pc \in InFlight => proc[c].transactions = chunks[Len(chunks)]
         /\ proc[c].pc = "done" =>
              (Len(chunks) = total /\ Flatten(chunks) = proc[c].input)

\* a batch call returned after two chunks of different sizes
C8_Witness ==
  \E c \in Callers :
    /\ proc[c].entry = "batch" /\ proc[c].pc = "done"
    /\ Len(proc[c].chunks) = 2
    /\ Len(proc[c].chunks[2]) < Len(proc[c].chunks[1])

\* C9: chunks are processed strictly sequentially: sendSalesData is invoked for
\* a chunk (token check included) only when the outcome of every earlier chunk
\* is known, so at most one chunk is in flight.
C9_ChunksSequential ==
  \A c \in Callers :
    proc[c].entry = "batch" =>
      LET log == proc[c].log
          sends(j) == CountEvents(log, {"send"}, j)
          settled(j) == CountEvents(log, {"returned", "threw"}, j)
      IN /\ \A j \in 1..Len(log) :
              log[j] = "send" => sends(j - 1) = settled(j - 1)
         /\ proc[c].pc \in InFlight => sends(Len(log)) = settled(Len(log)) + 1
         /\ proc[c].pc \in {"chunk_delay", "done"} =>
              sends(Len(log)) = settled(Len(log))

\* the second chunk is in flight, its POST retried, after the first one threw
C9_Witness ==
  \E c \in Callers :
    /\ proc[c].entry = "batch" /\ proc[c].pc = "backoff"
    /\ proc[c].log = <<"send", "threw", "send">>

\* C10: the inter-chunk delay elapses between every two consecutive chunk
\* submissions, whether the earlier chunk returned or threw, and no delay is
\* started after the last chunk.
C10_DelayBetweenChunks ==
  \A c \in Callers :
    proc[c].entry = "batch" =>
      /\ \A j \in 2..Len(proc[c].log) :
           proc[c].log[j] = "send" => proc[c].log[j - 1] = "delay"
      /\ proc[c].pc = "chunk_delay" =>
           proc[c].i + proc[c].batchSize < Len(proc[c].input)

\* ---- chunk outcomes in the results of sendSalesDataInBatches ------------------
\* the sum of f(k) over k in 1..n
RECURSIVE SumTo(_, _)
SumTo(f(_), n) == IF n = 0 THEN 0 ELSE SumTo(f, n - 1) + f(n)

\* the entries of failedTransactions whose transaction belongs to the chunk
OfChunk(failedTransactions, chunk) ==
  SelectSeq(failedTransactions,
            LAMBDA e : \E k \in 1..Len(chunk) : chunk[k] = e.transaction)

IsResult(o) == o.kind = "result"

\* C11: a chunk whose sendSalesData threw puts each of its transactions, with the
\* exception's message, in failedTransactions and its size in totalFailed; the
\* loop goes on, the counts and batchResults of the chunks that returned are
\* those of their responses, and the batch call itself never raises.
C11_ChunkFailureIsolated ==
  \A c \in Callers :
    proc[c].entry = "batch" =>
      LET o == proc[c].outcomes
          ch == proc[c].chunks
          r == proc[c].results
          rd(k) == o[k].result.resultData
          failed(k) == IF o[k].kind = "error" THEN Len(ch[k])
                       ELSE IF rd(k).present THEN rd(k).failCount ELSE 0
          sent(k) == IF o[k].kind = "result" /\ rd(k).present
                     THEN rd(k).requestCount ELSE 0
          success(k) == IF o[k].kind = "result" /\ rd(k).present
                        THEN rd(k).successCount ELSE 0
          returned == SelectSeq(o, IsResult)
      IN /\ Len(o) <= Len(ch)
         /\ r.totalFailed = SumTo(failed, Len(o))
         /\ r.totalSent = SumTo(sent, Len(o))
         /\ r.totalSuccess = SumTo(success, Len(o))
         /\ r.batchResults = [j \in 1..Len(returned) |-> returned[j].result]
         /\ \A k \in 1..Len(o) :
              o[k].kind = "error" =>
                OfChunk(r.failedTransactions, ch[k]) =
                  [j \in 1..Len(ch[k]) |->
                     [transaction |-> ch[k][j], error |-> o[k].error.message]]
         /\ proc[c].ret.kind # "error"
         /\ proc[c].pc = "done" => Len(o) = CeilDiv(Len(proc[c].input), proc[c].batchSize)

\* a batch call returned after a first chunk of two transactions that threw and a
\* second chunk that returned
C11_Witness ==
  \E c \in Callers :
    /\ proc[c].entry = "batch" /\ proc[c].pc = "done"
    /\ Len(proc[c].outcomes) = 2
    /\ proc[c].outcomes[1].kind = "error" /\ Len(proc[c].chunks[1]) = 2
    /\ proc[c].outcomes[2].kind = "result"
    /\ Len(proc[c].results.batchResults) = 1

\* the opVal is the dedup token that was sent for the transaction (at any time)
SentFor(tx, opVal) == opVal[1] = tx.orderId /\ opVal[2] = tx.lineItemId

\* C12: for every failData entry of a returned chunk response whose opVal was
\* sent for a transaction of that chunk, failedTransactions holds exactly once
\* that transaction paired with the entry's error code, whatever time passed
\* between the conversion of the record and the reading of the response.
C12_FailDataMappedBack ==
  \A c \in Callers :
    proc[c].entry = "batch" =>
      \A k \in 1..Len(proc[c].outcomes) :
        LET o == proc[c].outcomes[k]
            fd == o.result.resultData.failData
            chunk == proc[c].chunks[k]
            ft == proc[c].results.failedTransactions
        IN (o.kind = "result" /\ o.result.resultData.present /\ fd.present) =>
             \A e \in 1..Len(fd.entries), j \in 1..Len(chunk) :
               SentFor(chunk[j], fd.entries[e][1]) =>
                 Cardinality({x \in 1..Len(ft) :
                    ft[x] = [transaction |-> chunk[j],
                             error |-> <<fd.entries[e][2]>>]}) = 1

\* ---- the catalog cache ----------------------------------------------------------
FetchFailure == ShopifyError("Failed to fetch products")

\* C13: the step in which a job's catalog fetch settles either installs the
\* delivered products, or (the fetch failed) ends the job's call with the fetch
\* error and leaves the cache entries and lastCacheUpdate as they were; the step
\* that starts a fetch does not touch the cache either.
C13_FailedRefreshKeepsCache ==
  [][\A j \in Jobs :
       /\ (sync[j].pc = "fetch" /\ sync'[j].pc # "fetch") =>
            \/ /\ sync'[j].ret # "threw"
               /\ lastCacheUpdate' = now
               /\ \E products \in Catalogs : albumProductsCache' = SetAll({}, products)
            \/ /\ sync'[j].pc = "done" /\ sync'[j].ret = "threw"
               /\ sync'[j].error = FetchFailure
               /\ albumProductsCache' = albumProductsCache
               /\ lastCacheUpdate' = lastCacheUpdate
       /\ (sync[j].pc # "fetch" /\ sync'[j].pc = "fetch") =>
            /\ albumProductsCache' = albumProductsCache
            /\ lastCacheUpdate' = lastCacheUpdate]_vars

\* a refresh has failed and the entries stored earlier, at another time, are
\* still there
C13_Witness ==
  /\ sync["refresh"].pc = "done" /\ sync["refresh"].ret = "threw"
  /\ sync["refresh"].error = FetchFailure
  /\ albumProductsCache # {} /\ lastCacheUpdate < now

\* C14: under every interleaving of the jobs the cache changes only in the step
\* in which a fetch delivers, and then to the complete map of the delivered
\* products with lastCacheUpdate = now; no other step, in particular none that
\* starts or awaits a fetch, changes it, so lookups made meanwhile see the
\* previous snapshot.
C14_CacheReplacedAtomically ==
  [][\/ /\ albumProductsCache' = albumProductsCache
         /\ lastCacheUpdate' = lastCacheUpdate
      \/ \E j \in Jobs, products \in Catalogs :
           /\ sync[j].pc = "fetch" /\ sync'[j].pc # "fetch" /\ sync'[j].ret # "threw"
           /\ albumProductsCache' = SetAll({}, products)
           /\ lastCacheUpdate' = now]_vars

\* the refresh job awaits its fetch, the previous snapshot is in place, and the
\* sweep is in the middle of its orders, one of them already looked up
C14_Witness ==
  /\ sync["refresh"].pc = "fetch"
  /\ albumProductsCache # {}
  /\ sync["sweep"].pc = "fulfillments" /\ sync["sweep"].seen.looked > 0

\* C15: a sweep or webhook call starts a catalog fetch exactly when it finds the
\* cache older than CACHE_TTL (strictly) or empty: it starts one fetch in that
\* case and none otherwise, and it maps no order while that fetch is awaited.
C15_FetchIffStaleOrEmpty ==
  \A j \in {"sweep", "webhook"} :
    sync[j].pc # "idle" =>
      LET stale == sync[j].seen.age > CACHE_TTL \/ sync[j].seen.size = 0
      IN /\ sync[j].seen.nFetch = IF stale THEN 1 ELSE 0
         /\ sync[j].pc = "fetch" => sync[j].seen.looked = 0

\* a sweep that found a filled cache exactly CACHE_TTL old has ended without a
\* fetch, and a webhook call that found it older has fetched once and mapped
C15_Witness ==
  /\ sync["sweep"].pc = "done"
  /\ sync["sweep"].seen.age = CACHE_TTL /\ sync["sweep"].seen.size > 0
  /\ sync["sweep"].seen.nFetch = 0
  /\ sync["webhook"].seen.age > CACHE_TTL /\ sync["webhook"].seen.size > 0
  /\ sync["webhook"].seen.nFetch = 1 /\ sync["webhook"].seen.looked > 0

\* C16: refreshes are single-flight: at most one catalog fetch is in flight at
\* any time, whichever jobs ask for one.
C16_SingleFlightRefresh ==
  Cardinality({j \in Jobs : sync[j].pc = "fetch"}) <= 1

\* ---- the token ----------------------------------------------------------------
Handshaking == {"auth_ensure", "auth_forced"}

\* C17: token handshakes are serialized: whichever callers find the token
\* invalid or have it rejected, at most one authenticate handshake is in flight
\* at any time.
C17_HandshakesSerialized ==
  Cardinality({c \in Callers : proc[c].pc \in Handshaking}) <= 1

\* C18: when a caller passes ensureAuthenticated it goes on without a handshake
\* exactly when a token is stored and now + 5 minutes is strictly before its
\* expiresAt; otherwise it starts one handshake; and a handshake that changes
\* the stored token stores one with expiresAt = now + expires_in seconds.
C18_HandshakeIffTokenInvalid ==
  [][\A c \in Callers :
       LET fresh == token'.present /\ now + 5 * 60 * 1000 < token'.expiresAt
       IN /\ (proc'[c] # proc[c] /\ proc'[c].pc \in {"ensured", "auth_ensure"}) =>
               /\ proc'[c].pc = "ensured" <=> fresh
               /\ proc[c].pc = "idle" => proc'[c].seen.nAuth = IF fresh THEN 0 ELSE 1
          /\ (proc[c].pc \in Handshaking /\ proc'[c] # proc[c] /\ token' # token) =>
               /\ token'.present
               /\ \E expires_in \in ExpiresInChoices :
                    token'.expiresAt = now + expires_in * 1000]_vars

\* a caller waits for the handshake it started on finding a stored token exactly
\* at the safety margin
C18_Witness ==
  \E c \in Callers :
    /\ proc[c].pc = "auth_ensure" /\ proc[c].seen.nAuth = 1
    /\ token.present /\ now + 5 * 60 * 1000 = token.expiresAt

\* the latest step of the caller handled a failed handshake
HandshakeFailed(c) ==
  /\ proc[c].last.kind \in Handshaking
  /\ ~(proc[c].last.status = 200 /\ proc[c].last.code = SUCCESS /\ proc[c].last.listed)

\* the outcome is the error authenticate raises
IsAuthFailure(o) == o.kind = "error" /\ o.error.message = AuthFailed.message

\* C19: a handshake that fails (code other than 100, no resultData, transport
\* error) makes sendSalesData raise the authentication failure and stores no
\* token: the service holds no valid token afterwards, and after a failed forced
\* re-authentication the stored token is absent.
C19_FailedHandshakeStoresNoToken ==
  \A c \in Callers :
    HandshakeFailed(c) =>
      /\ IF proc[c].entry = "batch"
         THEN /\ proc[c].outcomes # <<>>
              /\ IsAuthFailure(proc[c].outcomes[Len(proc[c].outcomes)])
         ELSE proc[c].pc = "done" /\ IsAuthFailure(proc[c].ret)
      /\ ~(token.present /\ now + 5 * 60 * 1000 < token.expiresAt)
      /\ proc[c].last.kind = "auth_forced" => ~token.present

\* the forced re-authentication of a sendSalesData call has just failed
C19_Witness ==
  \E c \in Callers :
    /\ HandshakeFailed(c) /\ proc[c].last.kind = "auth_forced"
    /\ proc[c].entry = "single" /\ proc[c].pc = "done"

\* C20: when the token endpoint answers with a non-success code or without
\* resultData, the error that authenticate raises is an AuthenticationError,
\* while a transport failure raises a HanteoError.
C20_NonSuccessRaisesAuthenticationError ==
  \A c \in Callers :
    (HandshakeFailed(c) /\ proc[c].entry = "single" /\ proc[c].pc = "done") =>
      proc[c].ret.error.name = IF proc[c].last.status = 200 THEN "AuthenticationError"
                               ELSE "HanteoError"

\* the sweep's processOrder call of this step returned these transactions
Mapped(T) ==
  /\ sync["sweep"].pc \in {"orders", "fulfillments"}
  /\ sync'["sweep"].errors = <<>>
  /\ \/ sync'["sweep"].pc = "submit" /\ T = sync'["sweep"].allTransactions
     \/ sync'["sweep"].pc = "done" /\ sync'["sweep"].ret = "returned" /\ T = <<>>

\* the transactions of T made from line item li of fulfillment fl
MadeFrom(T, fl, li) ==
  {n \in 1..Len(T) : T[n].fulfillmentId = fl.id /\ T[n].lineItemId = li.id}

\* C21: processOrder returns exactly one transaction for each line item of each
\* fulfillment that carries a tracking reference (tracking_number or a non-empty
\* tracking_numbers) and whose variant id is a key of the catalog cache, with the
\* line item's quantity, the cached entry's barcode and status pending;
\* fulfillments without a tracking reference and line items whose variant is not
\* cached contribute no transaction.
C21_OneTransactionPerTrackedCachedItem ==
  [][\A T \in {sync'["sweep"].allTransactions, <<>>} :
       Mapped(T) =>
         LET order == sync'["sweep"].orders[1]
             fls == order.fulfillments
         IN /\ \A a \in 1..Len(fls) : \A b \in 1..Len(fls[a].line_items) :
                 LET fl == fls[a]
                     li == fl.line_items[b]
                     tracked == fl.tracking_number # "" \/ fl.tracking_numbers # <<>>
                     cached == {e \in albumProductsCache : e.variantId = li.variant_id}
                 IN IF tracked /\ cached # {}
                    THEN /\ Cardinality(MadeFrom(T, fl, li)) = 1
                         /\ \A n \in MadeFrom(T, fl, li) :
                              /\ T[n].quantity = li.quantity
                              /\ \E e \in cached : T[n].barcode = e.barcode
                              /\ T[n].status = "pending"
                    ELSE MadeFrom(T, fl, li) = {}
            /\ \A n \in 1..Len(T) :
                 \E a \in 1..Len(fls) : \E b \in 1..Len(fls[a].line_items) :
                   n \in MadeFrom(T, fls[a], fls[a].line_items[b])]_vars

\* a sweep is about to submit the two transactions of a fulfillment tracked by
\* tracking_numbers, having skipped the untracked fulfillment of the same order
C21_Witness ==
  /\ sync["sweep"].pc = "submit"
  /\ Len(sync["sweep"].allTransactions) = 2
  /\ Len(sync["sweep"].orders[1].fulfillments) = 2
  /\ \E a \in 1..2 :
       LET fl == sync["sweep"].orders[1].fulfillments[a]
       IN fl.tracking_number = "" /\ fl.tracking_numbers = <<>> /\ fl.line_items # <<>>
  /\ \A n \in 1..2 : sync["sweep"].allTransactions[n].trackingNumber = "KR2"

\* the order has one line item of a cached variant listed on the order itself
\* and one fulfillment, which has a tracking number and lists no line item
ItemOnOrderOnly(order) ==
  /\ Len(order.line_items) = 1
  /\ \E e \in albumProductsCache : e.variantId = order.line_items[1].variant_id
  /\ Len(order.fulfillments) = 1
  /\ order.fulfillments[1].tracking_number # ""
  /\ order.fulfillments[1].line_items = <<>>

\* C22: for an order that has a fulfillment with a tracking number, a line item
\* listed on the order itself whose variant is in the catalog cache yields one
\* transaction that is submitted, even when the fulfillment's own line_items list
\* is empty: the sweep goes on to submit exactly one transaction (the one its
\* transactionsSent reports) instead of returning without a submission.
C22_OrderLineItemsSubmitted ==
  [][(/\ sync["sweep"].pc \in {"orders", "fulfillments"}
      /\ sync'["sweep"].pc \in {"submit", "done"}
      /\ sync'["sweep"].errors = <<>>
      /\ sync'["sweep"].pc = "done" => sync'["sweep"].ret = "returned"
      /\ ItemOnOrderOnly(sync'["sweep"].orders[1]))
     => /\ sync'["sweep"].pc = "submit"
        /\ Len(sync'["sweep"].allTransactions) = 1
        /\ sync'["sweep"].allTransactions[1].lineItemId
             = sync'["sweep"].orders[1].line_items[1].id]_vars

\* C28: (orderId, lineItemId) identifies a transaction: the transactions that one
\* processOrder call returns are pairwise distinct in (orderId, lineItemId), also
\* when the same line item appears in more than one tracked fulfillment of the order.
C28_OrderLineItemIdentifies ==
  [][\A T \in {sync'["sweep"].allTransactions, <<>>} :
       Mapped(T) =>
         \A m, n \in 1..Len(T) :
           (T[m].orderId = T[n].orderId /\ T[m].lineItemId = T[n].lineItemId) => m = n]_vars

\* in this step the fulfillment fetch of the sweep's current order failed
FetchOfOrderFailed(j) ==
  /\ sync[j].entry = "sweep" /\ sync[j].pc = "fulfillments"
  /\ sync'[j] # sync[j]
  /\ sync'[j].orders[sync[j].k + 1].fulfillments = <<>>

\* C23: a sweep isolates per-order failures: when processOrder raises for one
\* order (its fulfillment fetch fails) the order is recorded in errors with its
\* display name and the message, the sweep goes on with the remaining orders and
\* submits what was mapped, and on return ordersProcessed + |errors| is the number
\* of orders fetched.
C23_OrderFailureIsolated ==
  [][\A j \in Jobs :
       /\ FetchOfOrderFailed(j) =>
            /\ sync'[j].errors
                 = Append(sync[j].errors,
                          [orderId |-> sync[j].orders[sync[j].k + 1].name,
                           error |-> <<"Shopify Error: ", "Failed to fetch fulfillments">>])
            /\ sync'[j].ordersProcessed = sync[j].ordersProcessed
            /\ sync'[j].ret # "threw"
            /\ sync'[j].pc = "submit" => sync'[j].allTransactions = sync[j].allTransactions
       /\ (sync[j].entry = "sweep" /\ sync[j].pc \in {"orders", "fulfillments"}
           /\ sync[j].allTransactions # <<>> /\ sync'[j] # sync[j])
            => sync'[j].pc \in {"fulfillments", "submit"}
       /\ (sync[j].entry = "sweep" /\ sync[j].pc # "done" /\ sync'[j].pc = "done"
           /\ sync'[j].ret = "returned")
            => sync'[j].ordersProcessed + Len(sync'[j].errors) = Len(sync'[j].orders)]_vars

\* the first order of a sweep failed, its second order was mapped, and the
\* sweep is submitting the second order's transaction
C23_Witness ==
  /\ sync["sweep"].pc = "submit"
  /\ Len(sync["sweep"].orders) = 2
  /\ sync["sweep"].orders[1].fulfillments = <<>>
  /\ Len(sync["sweep"].errors) = 1
  /\ sync["sweep"].errors[1].orderId = sync["sweep"].orders[1].name
  /\ sync["sweep"].ordersProcessed = 1
  /\ Len(sync["sweep"].allTransactions) = 1
  /\ sync["sweep"].allTransactions[1].orderId = sync["sweep"].orders[2].id

\* C25: when the cache is empty or older than the TTL and the refresh fails, the
\* sweep or webhook call ends with that error, without mapping any order against
\* the stale or empty cache and without submitting anything: the step in which
\* the awaited fetch settles either installs a catalog fetched now and goes on to
\* the orders, or ends the call with the fetch error, no order fetched, no cache
\* lookup made and nothing submitted.
C25_FailedRefreshEndsSweep ==
  [][\A j \in Jobs :
       (sync[j].entry \in {"sweep", "webhook"} /\ sync[j].pc = "fetch"
        /\ sync'[j] # sync[j]) =>
         \/ /\ sync'[j].pc = "orders"
            /\ lastCacheUpdate' = now
            /\ \E products \in Catalogs : albumProductsCache' = SetAll({}, products)
         \/ /\ sync'[j].pc = "done" /\ sync'[j].ret = "threw"
            /\ sync'[j].error = FetchFailure
            /\ sync'[j].orders = <<>> /\ sync'[j].ordersProcessed = 0
            /\ sync'[j].seen.looked = 0
            /\ sync'[j].allTransactions = <<>>]_vars

\* a sweep that found a filled but stale cache, and a webhook call, have both
\* ended with the fetch error without a lookup
C25_Witness ==
  /\ \A j \in {"sweep", "webhook"} :
       /\ sync[j].pc = "done" /\ sync[j].ret = "threw" /\ sync[j].error = FetchFailure
       /\ sync[j].seen.nFetch = 1 /\ sync[j].seen.looked = 0
  /\ sync["sweep"].seen.age > CACHE_TTL /\ sync["sweep"].seen.size > 0
  /\ albumProductsCache # {}

\* C24: at-least-once accounting: when sendSalesDataInBatches returns, every
\* transaction passed to it either was in the body of a submission POST that the
\* API answered with success (the chunk's sendSalesData returned that answer,
\* code SUCCESS), or is listed in failedTransactions.
C24_AtLeastOnceAccounting ==
  \A c \in Callers :
    (proc[c].entry = "batch" /\ proc[c].pc = "done") =>
      \A k \in 1..Len(proc[c].chunks) : \A n \in 1..Len(proc[c].chunks[k]) :
        \/ /\ proc[c].outcomes[k].kind = "result"
           /\ proc[c].outcomes[k].result.code = SUCCESS
        \/ \E m \in 1..Len(proc[c].results.failedTransactions) :
             proc[c].results.failedTransactions[m].transaction = proc[c].chunks[k][n]

\* the delays of the configured submission: 1000, 2000, 4000 ms
ConfiguredDelays == <<retryDelay, 2 * retryDelay, 4 * retryDelay>>

\* in this step the submission POST of caller c was rejected (no 2xx answer)
PostRejected(c) ==
  /\ proc[c].pc = "post" /\ proc'[c] # proc[c]
  /\ proc'[c].last.kind = "post" /\ proc'[c].last.status # 200

\* in this step the submission POST of caller c was answered 2xx
PostFulfilled(c) ==
  /\ proc[c].pc = "post" /\ proc'[c] # proc[c]
  /\ proc'[c].last.kind = "post" /\ proc'[c].last.status = 200

\* the sendSalesData call of caller c settled in this step with outcome o
SettledWith(c, o) ==
  IF proc[c].entry = "batch"
  THEN proc'[c].outcomes = Append(proc[c].outcomes, o)
  ELSE proc'[c].pc = "done" /\ proc'[c].ret = o

\* C27: retryWithBackoff invokes the operation at most maxRetries + 1 times (4
\* submission POSTs with retryAttempts = 3), waits min(initialDelay * factor^k,
\* maxDelay) before the attempt that follows the k-th failure (1000, 2000, 4000 ms
\* as configured, never more than maxDelay), ends at the first fulfilled attempt
\* without another one, and after the last failed attempt rethrows that
\* attempt's error without waiting again.
C27_RetryWithBackoff ==
  [][/\ \A initialDelay \in {retryDelay, 20 * retryDelay} : \A k \in 0..retryAttempts :
          /\ BackoffDelay(initialDelay, defaultFactor, defaultMaxDelay, k) <= defaultMaxDelay
          /\ \/ BackoffDelay(initialDelay, defaultFactor, defaultMaxDelay, k)
                  = initialDelay * (defaultFactor ^ k)
             \/ /\ initialDelay * (defaultFactor ^ k) > defaultMaxDelay
                /\ BackoffDelay(initialDelay, defaultFactor, defaultMaxDelay, k)
                     = defaultMaxDelay
      /\ \A c \in Callers :
          /\ proc[c].pc \in {"post", "backoff"} => proc[c].attempt \in 0..retryAttempts
          /\ proc[c].pc = "backoff" =>
               /\ proc[c].attempt < retryAttempts
               /\ proc[c].wait = ConfiguredDelays[proc[c].attempt + 1]
               /\ proc'[c] # proc[c] => proc'[c].attempt = proc[c].attempt + 1
          /\ (PostRejected(c) /\ proc[c].attempt < retryAttempts) =>
               /\ proc'[c].pc = "backoff"
               /\ proc'[c].attempt = proc[c].attempt
               /\ proc'[c].seen.nPost = proc[c].seen.nPost
          /\ (PostRejected(c) /\ proc[c].attempt = retryAttempts) =>
               /\ proc'[c].pc # "backoff"
               /\ proc'[c].pc # "auth_forced" =>
                    SettledWith(c, Thrown(AxiosError(proc'[c].last.status,
                                                     proc'[c].last.code)))
          /\ PostFulfilled(c) =>
               \E o \in {proc'[c].ret} \cup {proc'[c].outcomes[n] :
                                                n \in 1..Len(proc'[c].outcomes)} :
                 SettledWith(c, o)]_vars

\* a submission has ended with the error of its fourth POST after waiting
\* 1000, 2000 and 4000 ms
C27_Witness ==
  \E c \in Callers :
    /\ proc[c].entry = "single" /\ proc[c].pc = "done"
    /\ proc[c].seen.nPost = retryAttempts + 1 /\ proc[c].attempt = retryAttempts
    /\ proc[c].seen.nForced = 0
    /\ proc[c].ret.kind = "error" /\ proc[c].ret.error.name = "AxiosError"

\* the string is white space, then core, then white space, and core neither
\* starts nor ends with white space
TrimsTo(s, core) ==
  \E i \in 0..Len(s) : \E j \in i..Len(s) :
    /\ core = SubSeq(s, i + 1, j)
    /\ \A k \in 1..i : IsWhiteSpace(s[k])
    /\ \A k \in (j + 1)..Len(s) : IsWhiteSpace(s[k])
    /\ core # <<>> => ~IsWhiteSpace(core[1]) /\ ~IsWhiteSpace(core[Len(core)])

\* C26: isValidBarcode returns true exactly for strings that, after trimming
\* leading and trailing white space, are 8, 12 or 13 digits or a 10-character
\* ISBN (9 digits followed by a digit or X), and false for every other input
\* (empty, null, other lengths, letters, internal white space).
C26_IsValidBarcode ==
  (call.fn = "isValidBarcode" /\ call.pc = "returned") =>
    (call.valid <=>
       /\ call.barcode.present
       /\ \E i \in 0..Len(call.barcode.text) : \E j \in i..Len(call.barcode.text) :
            LET core == SubSeq(call.barcode.text, i + 1, j)
            IN /\ TrimsTo(call.barcode.text, core)
               /\ \/ /\ Len(core) \in {8, 12, 13}
                     /\ \A k \in 1..Len(core) : core[k] \in {"0", "1", "2", "3", "4", "5",
                                                              "6", "7", "8", "9"}
                  \/ /\ Len(core) = 10
                     /\ \A k \in 1..9 : core[k] \in {"0", "1", "2", "3", "4", "5",
                                                      "6", "7", "8", "9"}
                     /\ core[10] \in {"0", "1", "2", "3", "4", "5", "6", "7", "8", "9", "X"})

\* a 10-character ISBN ending in X with white space on both sides was accepted
C26_Witness ==
  /\ call.fn = "isValidBarcode" /\ call.pc = "returned" /\ call.valid
  /\ Len(call.barcode.text) = 13
  /\ call.barcode.text[1] = " " /\ call.barcode.text[11] = "X"
  /\ call.barcode.text[13] = "\n"

\* C29: every birth year attached to a mapped transaction lies in
\* [1900, current year], whichever way it was obtained: from a birth_year tag,
\* from a birth_year note, or parsed from a birth-date string by extractBirthYear.
C29_BirthYearInRange ==
  (call.fn = "customerInfo" /\ call.pc = "returned" /\ call.birthYear.present) =>
    /\ parseInt(call.birthYear.text) >= 1900
    /\ parseInt(call.birthYear.text) <= CurrentYear

\* C30: gender extraction maps male keywords to M and female keywords to W: tags
\* that contain the keyword female or woman yield W, tags that contain male or
\* man (and no female keyword) yield M, the tag gender:M yields M, and a customer
\* with no gender keyword in tags or note yields no gender.
C30_GenderKeywords ==
  (call.fn = "customerInfo" /\ call.pc = "returned") =>
    LET tags == toLowerCase(call.customer.tags.text)
        note == toLowerCase(call.customer.note.text)
        female == includes(tags, <<"f", "e", "m", "a", "l", "e">>) \/ includes(tags, <<"w", "o", "m", "a", "n">>)
        male == includes(tags, <<"m", "a", "l", "e">>) \/ includes(tags, <<"m", "a", "n">>)
        genderM == includes(tags, <<"g", "e", "n", "d", "e", "r", ":", "m">>)
    IN /\ female => call.gender = Text(<<"W">>)
       /\ (male /\ ~female) => call.gender = Text(<<"M">>)
       /\ genderM => call.gender = Text(<<"M">>)
       /\ (~female /\ ~male /\ ~includes(tags, <<"g", "e", "n", "d", "e", "r">>)
           /\ ~includes(note, <<"g", "e", "n", "d", "e", "r">>))
            => call.gender = NoText

\* ---- ShopifyService: pages and quota ---------------------------------------------
\* the requests sent for page number page
RequestsFor(page) == {i \in 1..Len(fetch.requests) : fetch.requests[i] = page}

\* C31: getFulfilledOrders requests the pages 1, 2, 3, ... in increasing order,
\* one request at a time, and stops after the first page with fewer rows than the
\* limit (an empty page included); its result is the concatenation of the pages
\* in page order; a page that still fails after its retries fails the whole fetch
\* with a ShopifyError and no partial result.
C31_OrderPagination ==
  fetch.fn = "getFulfilledOrders" =>
    /\ fetch.requests[1] = 1
    /\ \A i \in 1..(Len(fetch.requests) - 1) :
         fetch.requests[i + 1] \in {fetch.requests[i], fetch.requests[i] + 1}
    /\ fetch.pc \in {"request", "backoff", "threw"} =>
         /\ fetch.requests[Len(fetch.requests)] = fetch.page
         /\ fetch.page > 1 => fetch.fetched = fetch.limit
         /\ Len(fetch.orders) = (fetch.page - 1) * fetch.limit
    /\ ~fetch.hasMore => /\ fetch.pc \in {"cooling", "returned"}
                         /\ fetch.fetched < fetch.limit
    /\ fetch.pc = "returned" =>
         /\ ~fetch.hasMore
         /\ fetch.result.present
         /\ Len(fetch.result.rows)
              = (Len(fetch.result.rows) \div fetch.limit) * fetch.limit + fetch.fetched
         /\ \A i \in 1..Len(fetch.result.rows) : fetch.result.rows[i] = i
    /\ fetch.pc = "threw" =>
         /\ fetch.error = ShopifyError("Failed to fetch orders")
         /\ ~fetch.result.present
         /\ Cardinality(RequestsFor(fetch.page)) = shopifyMaxRetries + 1

\* two full pages and a short one have been returned, after a retried request
C31_Witness ==
  /\ fetch.fn = "getFulfilledOrders" /\ fetch.pc = "returned"
  /\ fetch.limit = 2 /\ Len(fetch.result.rows) = 5
  /\ Len(fetch.requests) > 3

\* C32: after an order page with a quota header the fetcher waits exactly when
\* usage is strictly above 80%, 2000 ms when it is strictly above 95% and 1000 ms
\* otherwise; at 80% or less, or with no quota header, it does not wait.
C32_CoolingOffThresholds ==
  [][(fetch.fn = "getFulfilledOrders" /\ fetch.pc = "request"
      /\ fetch'.pc \in {"request", "cooling", "returned"}) =>
       LET headers == fetch'.headers
           above80 == headers.present /\ headers.used * 100 > 80 * headers.limit
           above95 == headers.present /\ headers.used * 100 > 95 * headers.limit
       IN /\ above80 <=> fetch'.pc = "cooling"
          /\ fetch'.wait = IF above95 THEN 2000 ELSE IF above80 THEN 1000 ELSE 0]_vars

\* the page came with 38/40 and the fetcher waits 1000 ms
C32_Witness ==
  /\ fetch.fn = "getFulfilledOrders" /\ fetch.pc = "cooling"
  /\ fetch.headers = ApiCallLimit(38, 40) /\ fetch.wait = 1000

\* C33: the quota backpressure applies to catalog pages as to order pages: after
\* a catalog page that reports usage above 80%, the fetcher inserts the
\* cooling-off delay before it requests the next catalog page.
C33_CatalogCoolingOff ==
  [][(/\ fetch.fn = "getAlbumProducts" /\ fetch.pc = "request"
      /\ fetch'.endCursor = fetch.endCursor + 1
      /\ fetch'.hasNextPage
      /\ fetch'.headers.present
      /\ fetch'.headers.used * 100 > 80 * fetch'.headers.limit)
       => fetch'.pc = "cooling" /\ fetch'.wait >= 1000]_vars

\* ---- the catalog cache: eligibility ----------------------------------------------
\* one of the product's tags, trimmed and in lower case, is album or albums
AlbumTagged(tags) ==
  \E i \in 1..Len(tags) : Trim(toLowerCase(tags[i])) \in {<<"a", "l", "b", "u", "m">>, <<"a", "l", "b", "u", "m", "s">>}

\* C35: every entry ever present in the catalog cache is report-eligible: its
\* product carried an album tag ('album' or 'albums', case-insensitive, trimmed)
\* and its barcode passes isValidBarcode, after any sequence of refreshes.
C35_CacheEntriesEligible ==
  \A e \in albumProductsCache :
    /\ AlbumTagged(e.tags)
    /\ \E pattern \in BARCODE_PATTERNS : PatternTest(pattern, e.barcode)

\* a refresh saw two products and stored the variant of one of them, its barcode
\* trimmed
C35_Witness ==
  /\ fetch.fn = "getAlbumProducts" /\ fetch.pc = "stored" /\ fetch.fetched = 2
  /\ Cardinality(albumProductsCache) = 1
  /\ \E e \in albumProductsCache : e.variantId = 2 /\ e.barcode = DigitRun(12)

\* C34: generateOpVal yields a different dedup token on every call: two calls for
\* the same (orderId, lineItemId), however close in time, never return the same
\* value.
C34_OpValDiffersPerCall ==
  (call.fn = "generateOpVal" /\ Len(call.opVals) = 2) =>
    call.opVals[1] # call.opVals[2]

\* ---- the webhook handler ------------------------------------------------------------
\* C36: with a webhook secret configured, a request whose signature does not
\* match its body is answered 401 and never leads to processWebhookFulfillment;
\* for an accepted request the 200 response is sent before the processing starts,
\* and a failure of the processing changes neither the response nor the
\* handler's outcome.
C36_WebhookHandler ==
  /\ (hook.pc \notin {"idle", "received"} /\ hook.req.secret
      /\ hook.req.hmac # Hmac("body")) =>
       /\ hook.status = 401
       /\ ~hook.immediate /\ hook.processing = "none"
  /\ hook.processing # "none" => hook.status = 200 /\ hook.outcome = "resolved"

\* ---- two callers: the token at every attempt --------------------------------------
\* C37: no submission POST attempt is made without a stored token: under any
\* interleaving of two concurrent submit calls, also when one call drops the
\* token after a 401 while the other waits in its backoff delay, every attempt,
\* first or retried, finds a token for its Authorization header.
C37_AttemptFindsToken ==
  [][\A c \in Callers :
       (proc[c].pc \in {"ensured", "backoff"} /\ proc'[c] # proc[c]
        /\ Len(proc[c].transactions) > 0) =>
         /\ token.present
         /\ proc'[c].pc = "post"]_vars

\* ---- the counts of sendSalesDataInBatches -----------------------------------------
\* C38: count conservation: if every chunk response that returned normally
\* reports requestCount equal to the chunk size and successCount + failCount =
\* requestCount, then on return totalSuccess + totalFailed is the number of input
\* transactions and totalSent is the total size of the chunks that returned
\* normally.
C38_CountConservation ==
  \A c \in Callers :
    (proc[c].entry = "batch" /\ proc[c].pc = "done") =>
      LET o == proc[c].outcomes
          ch == proc[c].chunks
          r == proc[c].results
          rd(k) == o[k].result.resultData
          consistent(k) ==
            o[k].kind = "result" =>
              /\ rd(k).present
              /\ rd(k).requestCount = Len(ch[k])
              /\ rd(k).successCount + rd(k).failCount = rd(k).requestCount
          sizeReturned(k) == IF o[k].kind = "result" THEN Len(ch[k]) ELSE 0
      IN (\A k \in 1..Len(o) : consistent(k)) =>
           /\ r.totalSuccess + r.totalFailed = Len(proc[c].input)
           /\ r.totalSent = SumTo(sizeReturned, Len(o))

\* a batch call of three transactions returned: its first chunk raised, its second
\* returned a response that counts one record as failed
C38_Witness ==
  \E c \in Callers :
    /\ proc[c].entry = "batch" /\ proc[c].pc = "done"
    /\ Len(proc[c].input) = 3 /\ Len(proc[c].outcomes) = 2
    /\ proc[c].outcomes[1].kind = "error"
    /\ proc[c].outcomes[2].kind = "result"
    /\ proc[c].outcomes[2].result.resultData.present
    /\ proc[c].outcomes[2].result.resultData.failCount = 1
    /\ proc[c].results.totalSent = 1 /\ proc[c].results.totalFailed = 3

\* C39: a chunk answered with partial success (code 101 with a failure map) is
\* handled as a chunk-level exception: every transaction of the chunk is added
\* to failedTransactions with the generic partial-success message, totalFailed
\* grows by the chunk size, and totalSuccess, totalSent and batchResults are not
\* increased by that chunk.
C39_PartialSuccessFailsChunk ==
  [][\A c \in Callers :
       (/\ proc[c].entry = "batch" /\ proc[c].pc = "post" /\ proc'[c] # proc[c]
        /\ proc'[c].last = [kind |-> "post", status |-> 200, code |-> 101,
                            listed |-> TRUE]) =>
         LET r == proc[c].results
             batch == proc[c].batch
         IN /\ proc'[c].results.failedTransactions =
                 r.failedTransactions \o
                   [k \in 1..Len(batch) |->
                      [transaction |-> batch[k],
                       error |-> <<"Hanteo Error: ",
                                   "Partial success - some records failed">>]]
            /\ proc'[c].results.totalFailed = r.totalFailed + Len(batch)
            /\ proc'[c].results.totalSuccess = r.totalSuccess
            /\ proc'[c].results.totalSent = r.totalSent
            /\ proc'[c].results.batchResults = r.batchResults]_vars

\* a chunk of two transactions was answered 101 with a failure map for one of
\* them, and both are listed as failed
C39_Witness ==
  \E c \in Callers :
    /\ proc[c].entry = "batch" /\ Len(proc[c].outcomes) = 1
    /\ Len(proc[c].chunks[1]) = 2
    /\ proc[c].outcomes[1].kind = "error"
    /\ proc[c].outcomes[1].error.code = PARTIAL_SUCCESS
    /\ Len(proc[c].outcomes[1].error.failedData.entries) = 1
    /\ Len(proc[c].results.failedTransactions) = 2
    /\ proc[c].results.totalFailed = 2 /\ proc[c].results.totalSuccess = 0

\* ---- the catalog cache: an empty catalog -------------------------------------------
\* C40: after a successful refresh that stored zero entries the cache still counts
\* as cold: every later ensureProductsCached call (each sweep, each webhook
\* event) starts another full catalog fetch, however recent lastCacheUpdate is.
C40_EmptyCacheStaysCold ==
  [][\A j \in {"sweep", "webhook"} :
       (/\ sync[j].pc = "idle" /\ sync'[j].pc # "idle"
        /\ albumProductsCache = {} /\ lastCacheUpdate > 0) =>
         /\ sync'[j].pc = "fetch"
         /\ sync'[j].seen.nFetch = 1]_vars

\* a sweep has started a fetch on an empty cache that was refreshed this instant
C40_Witness ==
  /\ sync["sweep"].pc = "fetch"
  /\ sync["sweep"].seen.size = 0 /\ sync["sweep"].seen.age = 0
  /\ lastCacheUpdate > 0 /\ lastCacheUpdate = now
  /\ albumProductsCache = {}

====
